---- MODULE Spec2Model ----
(***************************************************************************)
(* A model of str2quantity: the unit registry (unit.System) and the        *)
(* generic parsing engine (parser.Parse).                                  *)
(*                                                                         *)
(* Strings are sequences of one-character strings.  float64 values are     *)
(* decimal numbers m / 10^k handled exactly; the model keeps to magnitudes *)
(* where the rounding noise of float64 multiplication stays below the      *)
(* parser's epsilon, so an exact decimal and its float64 image fall on the *)
(* same side of every comparison the parser makes.                         *)
(*                                                                         *)
(* Go maps and slices are references.  The unit map of a System, its       *)
(* prefix slice and the inner whitelist maps (map[string]bool) live in     *)
(* three heaps, unitMap, prefArr and wlSet, and a System holds addresses.  *)
(***************************************************************************)
EXTENDS Integers, Sequences, FiniteSets, TLC

VARIABLES sys,       \* SysId -> System record, for the systems that exist
          unitMap,   \* heap of unit maps:      MapId -> [key -> Unit]
          prefArr,   \* heap of prefix slices:   ArrId -> Seq(Prefix)
          wlSet,     \* heap of whitelist maps:  SetId -> set of prefix keys
          nops,      \* number of registry mutations performed so far
          last,      \* the last registry call and what it returned
          \* one call of parser.Parse[N](orig, sys[1])
          orig,          \* the input string
          parts,         \* (ghost) the parts orig was written from
          ptype,         \* the type parameter N
          pc,            \* "idle" (no call), "start", "loop" (at the loop test), "done"
          sRem,          \* s: the input not yet consumed
          total,
          detectedDim,
          isDimSet,
          partsCount,
          trace,         \* (ghost) per part reached: partVal, partN, ok
          ret,           \* what Parse returned
          \* calls of Parse and Resolve made at the same time on sys[1]
          callState      \* caller -> the call it is in and that call's locals

regVars == <<sys, unitMap, prefArr, wlSet, nops, last>>
parseVars == <<orig, parts, ptype, pc, sRem, total, detectedDim, isDimSet, partsCount, trace, ret>>
vars == <<sys, unitMap, prefArr, wlSet, nops, last,
          orig, parts, ptype, pc, sRem, total, detectedDim, isDimSet, partsCount, trace, ret,
          callState>>

(***************************************************************************)
(* Bounds of the model.                                                    *)
(***************************************************************************)
MaxOps == 2
MaxParts == 2
MaxLen == 4

(***************************************************************************)
(* Decimal numbers standing for float64 values: m / 10^k, normalised.      *)
(***************************************************************************)
RECURSIVE Pow10(_)
Pow10(n) == IF n = 0 THEN 1 ELSE 10 * Pow10(n - 1)

Dec(m, k) == [m |-> m, k |-> k]

RECURSIVE Norm(_)
Norm(x) ==
    IF x.m = 0 THEN Dec(0, 0)
    ELSE IF x.k > 0 /\ x.m % 10 = 0 THEN Norm(Dec(x.m \div 10, x.k - 1))
    ELSE x

Abs(n) == IF n < 0 THEN -n ELSE n
Max(a, b) == IF a >= b THEN a ELSE b

FInt(n) == Dec(n, 0)
FMul(a, b) == Norm(Dec(a.m * b.m, a.k + b.k))
FAdd(a, b) ==
    LET k == Max(a.k, b.k)
    IN  IF a.m = 0 THEN b
        ELSE IF b.m = 0 THEN a
        ELSE Norm(Dec(a.m * Pow10(k - a.k) + b.m * Pow10(k - b.k), k))

(***************************************************************************)
(* Strings.                                                                *)
(***************************************************************************)
Str1(a) == <<a>>
Str2(a, b) == <<a, b>>
Str3(a, b, c) == <<a, b, c>>

\* strings.ToLower on one character of the model's alphabet
LowerChar(c) ==
    IF c = "K" THEN "k"
    ELSE IF c = "I" THEN "i"
    ELSE IF c = "B" THEN "b"
    ELSE c

RECURSIVE ToLower(_)
ToLower(s) == IF s = <<>> THEN <<>> ELSE <<LowerChar(Head(s))>> \o ToLower(Tail(s))

\* s[:n] and s[n:] of Go
Take(s, n) == SubSeq(s, 1, n)
Drop(s, n) == SubSeq(s, n + 1, Len(s))

(***************************************************************************)
(* unit.Dimension, unit.Unit, unit.Prefix                                  *)
(***************************************************************************)
Dimension(l, m, t, extra) ==
    [L |-> l, M |-> m, T |-> t, I |-> 0, K |-> 0, N |-> 0, J |-> 0, Extra |-> extra]

DimDimensionless == Dimension(0, 0, 0, "")
DimTime == Dimension(0, 0, 1, "")
DimLength == Dimension(1, 0, 0, "")
DimStorage == Dimension(0, 0, 0, "storage")

Equals(d, other) == d = other

Unit(symbol, dim, scale) == [Symbol |-> symbol, Dimension |-> dim, Scale |-> scale]
Prefix(symbol, scale) == [Symbol |-> symbol, Scale |-> scale]

\* Unit{} : the zero value
ZeroUnit == Unit(<<>>, DimDimensionless, FInt(0))

(***************************************************************************)
(* unit.System.  A world W is the four registry variables taken together,  *)
(* so that the operations are operators from worlds to worlds.             *)
(***************************************************************************)
SysIds == {1, 2}
World(s, u, p, w) == [sys |-> s, unitMap |-> u, prefArr |-> p, wlSet |-> w]

EmptyMap == [x \in {} |-> x]
MapPut(f, k, v) == [x \in (DOMAIN f) \cup {k} |-> IF x = k THEN v ELSE f[x]]

SystemConfig(multi, ci, seps) ==
    [AllowMultiPart |-> multi, CaseInsensitive |-> ci, Separators |-> seps]

\* NewSystem: fresh, empty maps and slice.  The unit map and the slice the
\* i-th System is made with are stored at address i of their heaps.
NewSystem(config, addr) ==
    [units |-> addr, prefixes |-> addr, unitPrefixes |-> EmptyMap, Config |-> config]

\* s.units, the map behind the address
Units(W, S) == W.unitMap[S.units]

\* (mutant) the key left as it was spelled
normalizeKeyAsSpelled(S, k) == k

\* System.normalizeKey
normalizeKey(S, k) == IF S.Config.CaseInsensitive THEN ToLower(k) ELSE k

\* (mutant) a registered key keeps its first definition
AddKeepFirst(W, i, symbol, scale, dim) ==
    LET S == W.sys[i]
        key == normalizeKey(S, symbol)
    IN  IF key \in DOMAIN Units(W, S) THEN W
        ELSE [W EXCEPT !.unitMap[S.units] = MapPut(@, key, Unit(symbol, dim, scale))]

\* System.Add
Add(W, i, symbol, scale, dim) ==
    LET S == W.sys[i]
        key == normalizeKey(S, symbol)
    IN  [W EXCEPT !.unitMap[S.units] = MapPut(@, key, Unit(symbol, dim, scale))]

\* The index of the first prefix of arr whose symbol is pKey, 0 when none
\* (the range loops of AddPrefix and OverwritePrefix stop at the first hit).
FindPrefix(arr, pKey) ==
    IF \E n \in 1..Len(arr) : arr[n].Symbol = pKey
    THEN CHOOSE n \in 1..Len(arr) :
            /\ arr[n].Symbol = pKey
            /\ \A j \in 1..(n - 1) : arr[j].Symbol # pKey
    ELSE 0

RECURSIVE SeqOf(_, _)
SeqOf(f, n) == IF n = 0 THEN <<>> ELSE Append(SeqOf(f, n - 1), f[n])

Perms(n) == {f \in [1..n -> 1..n] : \A a, b \in 1..n : a # b => f[a] # f[b]}

\* the less function handed to sort.Slice
LongerFirst(a, b) == Len(a.Symbol) > Len(b.Symbol)

\* (mutant) the slice left in insertion order
SortPrefixesNotSorted(arr) == {arr}

\* (mutant) the slice sorted the other way round, shorter symbols first
SortPrefixesShorterFirst(arr) ==
    LET n == Len(arr)
    IN  {SeqOf([i \in 1..n |-> arr[f[i]]], n) :
            f \in {g \in Perms(n) :
                    \A a \in 1..n : \A b \in 1..n :
                        a < b => ~LongerFirst(arr[g[a]], arr[g[b]])}}

\* sort.Slice(prefixes, longer first).  sort.Slice is not stable: the order
\* of prefixes of equal length is whatever the sort leaves, so every
\* arrangement in which no later element is longer is an outcome.
SortPrefixes(arr) ==
    LET n == Len(arr)
    IN  {SeqOf([i \in 1..n |-> arr[f[i]]], n) :
            f \in {g \in Perms(n) :
                    \A a \in 1..n : \A b \in 1..n :
                        a < b => ~LongerFirst(arr[g[b]], arr[g[a]])}}

\* (mutant) the definition appended whether or not the symbol is registered
RegisterPrefixAlwaysAppend(arr, pKey, scale) ==
    SortPrefixes(Append(arr, Prefix(pKey, scale)))

\* Step 1 of AddPrefix: the outcomes of registering the prefix definition
\* are the possible new contents of the slice, or "conflict".
RegisterPrefix(arr, pKey, scale) ==
    LET n == FindPrefix(arr, pKey)
    IN  IF n # 0
        THEN IF arr[n].Scale # scale THEN {"conflict"} ELSE {arr}
        ELSE SortPrefixes(Append(arr, Prefix(pKey, scale)))

\* One round of the binding loop of AddPrefix for a registered unit uKey.
BindOne(W, i, uKey, pKey) ==
    LET S == W.sys[i]
        fresh == <<i, uKey>>
        W1 == IF uKey \in DOMAIN S.unitPrefixes
              THEN W
              ELSE [W EXCEPT !.sys[i].unitPrefixes = MapPut(S.unitPrefixes, uKey, fresh),
                             !.wlSet[fresh] = {}]
        id == W1.sys[i].unitPrefixes[uKey]
    IN  [W1 EXCEPT !.wlSet[id] = @ \cup {pKey}]

\* Step 2 of AddPrefix: bind to the target units in order, stopping at the
\* first one that is not registered.
RECURSIVE BindTargets(_, _, _, _)
BindTargets(W, i, pKey, targets) ==
    IF targets = <<>> THEN [W |-> W, err |-> "nil"]
    ELSE LET uKey == normalizeKey(W.sys[i], Head(targets))
         IN  IF uKey \notin DOMAIN Units(W, W.sys[i])
             THEN [W |-> W, err |-> "unknown unit"]
             ELSE BindTargets(BindOne(W, i, uKey, pKey), i, pKey, Tail(targets))

\* System.AddPrefix: the set of its outcomes [W, err]
AddPrefix(W, i, prefixSymbol, scale, targets) ==
    LET S == W.sys[i]
        pKey == normalizeKey(S, prefixSymbol)
    IN  {IF r = "conflict"
         THEN [W |-> W, err |-> "conflict"]
         ELSE BindTargets([W EXCEPT !.prefArr[S.prefixes] = r], i, pKey, targets) :
            r \in RegisterPrefix(W.prefArr[S.prefixes], pKey, scale)}

\* (mutant) the copy keeps the source's unit map instead of a new one
CloneUnitsShared(W, src, dst) ==
    [W EXCEPT !.sys[dst].units = W.sys[src].units]

\* Step 2 of Clone: the units, copied entry by entry into the new map.
CloneUnits(W, src, dst) ==
    [W EXCEPT !.unitMap[W.sys[dst].units] = Units(W, W.sys[src])]

\* Step 3 of Clone: the slice of the copy.
ClonePrefixes(W, src, dst) ==
    LET arr == W.prefArr[W.sys[src].prefixes]
    IN  [W EXCEPT !.prefArr[W.sys[dst].prefixes] = arr]

\* Step 4 of Clone: a new inner map per unit key, filled entry by entry.
CloneBindings(W, src, dst) ==
    LET up == W.sys[src].unitPrefixes
    IN  [W EXCEPT !.sys[dst].unitPrefixes = [k \in DOMAIN up |-> <<dst, k>>],
                  !.wlSet = [id \in DOMAIN W.wlSet |->
                                IF id[1] = dst
                                THEN IF id[2] \in DOMAIN up THEN W.wlSet[up[id[2]]] ELSE {}
                                ELSE W.wlSet[id]]]

\* System.Clone, the copy taking the place of system dst
Clone(W, src, dst) ==
    LET S == W.sys[src]
        N0 == NewSystem(S.Config, dst)
        W0 == [W EXCEPT !.sys = MapPut(W.sys, dst, N0),
                        !.unitMap[dst] = EmptyMap,
                        !.prefArr[dst] = <<>>]
    IN  CloneBindings(ClonePrefixes(CloneUnits(W0, src, dst), src, dst), src, dst)

\* (mutant) a prefix that is not registered gets created
OverwritePrefixOrCreate(W, i, symbol, newScale) ==
    LET S == W.sys[i]
        pKey == normalizeKey(S, symbol)
        n == FindPrefix(W.prefArr[S.prefixes], pKey)
    IN  IF n # 0
        THEN [W |-> [W EXCEPT !.prefArr[S.prefixes][n].Scale = newScale], err |-> "nil"]
        ELSE [W |-> [W EXCEPT !.prefArr[S.prefixes] = Append(@, Prefix(pKey, newScale))],
              err |-> "nil"]

\* System.OverwritePrefix
OverwritePrefix(W, i, symbol, newScale) ==
    LET S == W.sys[i]
        pKey == normalizeKey(S, symbol)
        n == FindPrefix(W.prefArr[S.prefixes], pKey)
    IN  IF n # 0
        THEN [W |-> [W EXCEPT !.prefArr[S.prefixes][n].Scale = newScale], err |-> "nil"]
        ELSE [W |-> W, err |-> "not found"]

Found(u, scale) == [u |-> u, scale |-> scale, found |-> TRUE]
NotFound == [u |-> ZeroUnit, scale |-> FInt(0), found |-> FALSE]

\* (mutant) the whitelist is not consulted
PrefixMatchesNoWhitelist(W, S, p, lookupSymbol) ==
    LET pLen == Len(p.Symbol)
    IN  /\ Len(lookupSymbol) > pLen
        /\ Take(lookupSymbol, pLen) = p.Symbol
        /\ Drop(lookupSymbol, pLen) \in DOMAIN Units(W, S)

\* Whether prefix p of system S decomposes lookupSymbol (the body of the
\* loop of Resolve).
PrefixMatches(W, S, p, lookupSymbol) ==
    LET pLen == Len(p.Symbol)
    IN  /\ Len(lookupSymbol) > pLen
        /\ Take(lookupSymbol, pLen) = p.Symbol
        /\ LET baseSymbol == Drop(lookupSymbol, pLen)
           IN  /\ baseSymbol \in DOMAIN Units(W, S)
               /\ baseSymbol \in DOMAIN S.unitPrefixes
               /\ p.Symbol \in W.wlSet[S.unitPrefixes[baseSymbol]]

\* (mutant) a decomposition returned with the scale of an exact match
PrefixUnitMatchScaleOne(W, S, lookupSymbol) ==
    LET arr == W.prefArr[S.prefixes]
        hits == {n \in 1..Len(arr) : PrefixMatches(W, S, arr[n], lookupSymbol)}
    IN  IF hits = {} THEN NotFound
        ELSE LET n == CHOOSE h \in hits : \A j \in hits : h <= j
             IN  Found(Units(W, S)[Drop(lookupSymbol, Len(arr[n].Symbol))], FInt(1))

\* 2. Prefix + Unit Match: the first prefix of the slice that matches
PrefixUnitMatch(W, S, lookupSymbol) ==
    LET arr == W.prefArr[S.prefixes]
        hits == {n \in 1..Len(arr) : PrefixMatches(W, S, arr[n], lookupSymbol)}
    IN  IF hits = {} THEN NotFound
        ELSE LET n == CHOOSE h \in hits : \A j \in hits : h <= j
                 p == arr[n]
             IN  Found(Units(W, S)[Drop(lookupSymbol, Len(p.Symbol))], p.Scale)

\* (mutant) decomposition tried before the exact match
ResolvePrefixFirst(W, i, symbol) ==
    LET S == W.sys[i]
        lookupSymbol == normalizeKey(S, symbol)
        r == PrefixUnitMatch(W, S, lookupSymbol)
    IN  IF r.found THEN r
        ELSE IF lookupSymbol \in DOMAIN Units(W, S)
        THEN Found(Units(W, S)[lookupSymbol], FInt(1))
        ELSE NotFound

\* System.Resolve
Resolve(W, i, symbol) ==
    LET S == W.sys[i]
        lookupSymbol == normalizeKey(S, symbol)
    IN  IF lookupSymbol \in DOMAIN Units(W, S)
        THEN Found(Units(W, S)[lookupSymbol], FInt(1))
        ELSE PrefixUnitMatch(W, S, lookupSymbol)

\* (mutant) a Resolve that remembers a symbol found by a prefix as a unit
ResolveLeavesMemo(W, i, symbol) ==
    LET S == W.sys[i]
        r == Resolve(W, i, symbol)
    IN  IF r.found
        THEN [W EXCEPT !.unitMap[S.units] = MapPut(@, normalizeKey(S, symbol), r.u)]
        ELSE W

\* The registry when Resolve returns.  Resolve reads s.units, s.prefixes and
\* s.unitPrefixes and assigns to none of them; the index expression
\* s.unitPrefixes[baseSymbol] of a missing key yields nil and adds no entry.
ResolveLeaves(W, i, symbol) == W

(***************************************************************************)
(* parser: the scanners.  A string is a sequence of one-character strings. *)
(***************************************************************************)
DigitChars == <<"0", "1", "2", "3", "4", "5", "6", "7", "8", "9">>
IsDigit(c) == \E n \in 1..10 : DigitChars[n] = c
DigitVal(c) == (CHOOSE n \in 1..10 : DigitChars[n] = c) - 1

\* the characters that start a number: digits, dot, signs
IsNumStart(c) == IsDigit(c) \/ c \in {".", "+", "-"}

DefaultSeparators == <<" ", "\t", "\n", "\r", ",", ";", "|", "/">>
ContainsRune(str, c) == \E n \in 1..Len(str) : str[n] = c

\* (mutant) every configured separator skipped, number starts included
RECURSIVE safeSkipSepsGreedy(_, _)
safeSkipSepsGreedy(str, separators) ==
    LET seps == IF separators = <<>> THEN DefaultSeparators ELSE separators
    IN  IF str = <<>> THEN str
        ELSE IF ContainsRune(seps, Head(str)) THEN safeSkipSepsGreedy(Tail(str), separators)
        ELSE str

\* safeSkipSeps
RECURSIVE safeSkipSeps(_, _)
safeSkipSeps(str, separators) ==
    LET seps == IF separators = <<>> THEN DefaultSeparators ELSE separators
    IN  IF str = <<>> THEN str
        ELSE IF IsNumStart(Head(str)) THEN str
        ELSE IF ContainsRune(seps, Head(str)) THEN safeSkipSeps(Tail(str), separators)
        ELSE str

\* the scanning loop of parseNumber: the value of end when the loop is left
RECURSIVE NumberEnd(_, _, _, _, _)
NumberEnd(str, end, allowSign, allowDot, allowE) ==
    IF end >= Len(str) THEN end
    ELSE LET c == str[end + 1]
         IN  IF IsDigit(c) THEN NumberEnd(str, end + 1, FALSE, allowDot, allowE)
             ELSE IF c = "." /\ allowDot
                  THEN NumberEnd(str, end + 1, FALSE, FALSE, allowE)
             ELSE IF c \in {"e", "E"} /\ allowE /\ end > 0
                  THEN NumberEnd(str, end + 1, TRUE, FALSE, FALSE)
             ELSE IF c \in {"+", "-"} /\ allowSign
                  THEN NumberEnd(str, end + 1, FALSE, allowDot, allowE)
             ELSE end

\* the length of the longest prefix of str made of digits
RECURSIVE DigitRun(_)
DigitRun(str) ==
    IF str # <<>> /\ IsDigit(Head(str)) THEN 1 + DigitRun(Tail(str)) ELSE 0

\* the number a string of digits writes
RECURSIVE DigitsValue(_)
DigitsValue(str) ==
    IF str = <<>> THEN 0
    ELSE 10 * DigitsValue(Take(str, Len(str) - 1)) + DigitVal(str[Len(str)])

\* strconv.ParseFloat(lit, 64) on the decimal syntax: [sign] digits [. digits]
\* [e|E [sign] digits], at least one digit in the mantissa, at least one in
\* the exponent when there is one, and nothing left over.
\* The mantissa: its digits, how many follow the dot, and what follows it.
Mantissa(body) ==
    LET nInt == DigitRun(body)
        hasDot == nInt < Len(body) /\ body[nInt + 1] = "."
        nFrac == IF hasDot THEN DigitRun(Drop(body, nInt + 1)) ELSE 0
    IN  [digits |-> Take(body, nInt) \o SubSeq(body, nInt + 2, nInt + 1 + nFrac),
         nFrac |-> nFrac,
         rest |-> Drop(body, nInt + (IF hasDot THEN 1 ELSE 0) + nFrac)]

\* The exponent written by what follows the mantissa.
Exponent(rest) ==
    IF rest = <<>> THEN [ok |-> TRUE, e |-> 0]
    ELSE IF Head(rest) \notin {"e", "E"} THEN [ok |-> FALSE, e |-> 0]
    ELSE LET t == Tail(rest)
             ds == IF t # <<>> /\ Head(t) \in {"+", "-"} THEN Tail(t) ELSE t
         IN  IF ds = <<>> \/ DigitRun(ds) # Len(ds) THEN [ok |-> FALSE, e |-> 0]
             ELSE [ok |-> TRUE,
                   e |-> IF Head(t) = "-" THEN -DigitsValue(ds) ELSE DigitsValue(ds)]

\* mant x 10^shift
Magnitude(mant, shift) ==
    IF shift >= 0 THEN Dec(mant * Pow10(shift), 0) ELSE Norm(Dec(mant, -shift))

ParseFloat(lit) ==
    LET neg == lit # <<>> /\ Head(lit) = "-"
        body == IF lit # <<>> /\ Head(lit) \in {"+", "-"} THEN Tail(lit) ELSE lit
        mt == Mantissa(body)
        ex == Exponent(mt.rest)
        mag == Magnitude(DigitsValue(mt.digits), ex.e - mt.nFrac)
    IN  IF mt.digits # <<>> /\ ex.ok
        THEN [err |-> "nil", val |-> Dec(IF neg THEN -mag.m ELSE mag.m, mag.k)]
        ELSE [err |-> "syntax", val |-> FInt(0)]

parseNumber(str) ==
    LET end == NumberEnd(str, 0, TRUE, TRUE, TRUE)
        f == ParseFloat(Take(str, end))
    IN  IF end = 0 THEN [val |-> FInt(0), rest |-> str, err |-> "invalid number"]
        ELSE IF f.err # "nil" THEN [val |-> FInt(0), rest |-> str, err |-> f.err]
        ELSE [val |-> f.val, rest |-> Drop(str, end), err |-> "nil"]

\* the scanning loop of parseUnit
RECURSIVE UnitEnd(_, _, _)
UnitEnd(str, seps, end) ==
    IF end >= Len(str) THEN end
    ELSE LET c == str[end + 1]
         IN  IF IsNumStart(c) THEN end
             ELSE IF ContainsRune(seps, c) THEN end
             ELSE UnitEnd(str, seps, end + 1)

parseUnit(str, separators) ==
    LET seps == IF separators = <<>> THEN DefaultSeparators ELSE separators
        end == UnitEnd(str, seps, 0)
    IN  [unitStr |-> Take(str, end), rest |-> Drop(str, end)]

(***************************************************************************)
(* parser: the type parameter N and the conversions of Parse.              *)
(***************************************************************************)
Numbers == {"int8", "uint8", "int64", "float64"}
IsFloat(N) == N \in {"float32", "float64"}

\* The range of N.  The values of the model stay far inside int64, whose
\* range therefore never binds here.
InRange(N, n) ==
    IF N = "int8" THEN -128 <= n /\ n <= 127
    ELSE IF N = "uint8" THEN 0 <= n /\ n <= 255
    ELSE TRUE

\* the low bits of n, read as an N
Wrap(N, n) ==
    IF N = "int8" THEN ((n + 128) % 256) - 128
    ELSE IF N = "uint8" THEN n % 256
    ELSE n

\* the value of N nearest to n
Saturate(N, n) ==
    IF N = "int8" THEN (IF n < -128 THEN -128 ELSE IF n > 127 THEN 127 ELSE n)
    ELSE IF N = "uint8" THEN (IF n < 0 THEN 0 ELSE IF n > 255 THEN 255 ELSE n)
    ELSE n

\* math.Round: the nearest integer, halves away from zero
Round(x) ==
    IF x.k = 0 THEN x.m
    ELSE IF x.k >= 10 THEN 0
    ELSE LET P == Pow10(x.k)
             q == Abs(x.m) \div P
             r == Abs(x.m) % P
             a == IF 2 * r >= P THEN q + 1 ELSE q
         IN  IF x.m < 0 THEN -a ELSE a

\* the integer part of x: what a float-to-integer conversion keeps
Trunc(x) ==
    IF x.k = 0 THEN x.m
    ELSE IF x.k >= 10 THEN 0
    ELSE LET q == Abs(x.m) \div Pow10(x.k)
         IN  IF x.m < 0 THEN -q ELSE q

\* float32 keeps 24 significant bits.  For a value a / 10^k with a > 0,
\* the number of doublings that bring a to 2^23 * 10^k or above: the j for
\* which a * 2^j / 10^k has its integer part in 2^23 .. 2^24 - 1.  The
\* values converted here have at most two decimals and lie below 2^24.
RECURSIVE Pow2(_)
Pow2(n) == IF n = 0 THEN 1 ELSE 2 * Pow2(n - 1)

RECURSIVE Pow5(_)
Pow5(n) == IF n = 0 THEN 1 ELSE 5 * Pow5(n - 1)

RECURSIVE Float32Scale(_, _)
Float32Scale(a, lim) == IF a >= lim THEN 0 ELSE 1 + Float32Scale(2 * a, lim)

\* How far the nearest float32 is from x: d / (10^k * 2^j), where d is the
\* distance of a * 2^j from the nearest multiple of 10^k
Float32Error(x) ==
    LET P == Pow10(x.k)
        j == Float32Scale(Abs(x.m), Pow2(23) * P)
        r == (Abs(x.m) * Pow2(j)) % P
    IN  [d |-> IF 2 * r <= P THEN r ELSE P - r, j |-> j]

\* float32(x): x itself when 24 bits hold it, else its float32 neighbour,
\* kept as x together with the distance between the two
Float32(x) ==
    IF x.m = 0 \/ Float32Error(x).d = 0 THEN x
    ELSE [m |-> x.m, k |-> x.k, off |-> Float32Error(x)]

\* N(f) for a float64 f.  Go leaves the result of converting a value outside
\* the range of an integer type to the implementation: the builds differ
\* between keeping the low bits and clamping.
ToN(N, f) ==
    IF N = "float32" THEN {Float32(f)}
    ELSE IF IsFloat(N) THEN {f}
    ELSE LET t == Trunc(f)
         IN  IF InRange(N, t) THEN {FInt(t)}
             ELSE {FInt(Wrap(N, t)), FInt(Saturate(N, t))}

\* float64(castN): every value of the types of the model is a float64, and
\* a whole number n is held here as n / 10^0
ToFloat64(N, x) == IF IsFloat(N) THEN x ELSE FInt(x.m)

\* const epsilon = 1e-12, as 10^-EpsilonDigits
EpsilonDigits == 12

\* The distance d / (10^k * 2^j) between a float32 and the value x it was
\* converted from is at most epsilon: d * 5^(12-k) <= 2^(j-(12-k))
OffWithinEpsilon(x) ==
    LET e == EpsilonDigits - x.k
    IN  x.off.j >= e /\ x.off.d * Pow5(e) <= Pow2(x.off.j - e)

\* math.Abs(a - b) <= epsilon.  A float32 that 24 bits could not hold
\* exactly is only ever compared with the value it was converted from.
WithinEpsilon(a, b) ==
    LET d == FAdd(Dec(a.m, a.k), Dec(-b.m, b.k))
    IN  IF "off" \in DOMAIN a
        THEN d.m = 0 /\ OffWithinEpsilon(a)
        ELSE d.m = 0 \/ (d.k >= EpsilonDigits /\ Abs(d.m) <= Pow10(d.k - EpsilonDigits))

\* (mutant) Step B without the round-trip check
ConvertUnchecked(N, partVal) ==
    {[ok |-> TRUE, partN |-> castN] : castN \in ToN(N, partVal)}

\* Steps A and B of Parse: the part's value as an N, or the precision loss
Convert(N, partVal) ==
    LET rounded == FInt(Round(partVal))
    IN  IF WithinEpsilon(rounded, partVal)
        THEN {[ok |-> TRUE, partN |-> partN] : partN \in ToN(N, rounded)}
        ELSE {IF ~WithinEpsilon(ToFloat64(N, castN), partVal)
              THEN [ok |-> FALSE, partN |-> FInt(0)]
              ELSE [ok |-> TRUE, partN |-> castN] : castN \in ToN(N, partVal)}

\* (mutant) the total replaced by the part
AccumulateLast(N, tot, partN) == partN

\* total += partN, in N
Accumulate(N, tot, partN) ==
    IF N = "float32" THEN Float32(FAdd(Dec(tot.m, tot.k), Dec(partN.m, partN.k)))
    ELSE IF IsFloat(N) THEN FAdd(tot, partN)
    ELSE FInt(Wrap(N, tot.m + partN.m))

\* (mutant) the restriction never applied
MultiPartRefusedNever(config, count) == FALSE

\* partsCount > 0 && !sys.Config.AllowMultiPart
MultiPartRefused(config, count) == count > 0 /\ ~config.AllowMultiPart

(***************************************************************************)
(* parser.Parse: the state of the loop, one iteration, and the whole call. *)
(***************************************************************************)
Return(val, dim, err) == [val |-> val, dim |-> dim, err |-> err]
NoReturn == Return(FInt(0), DimDimensionless, "none")

LoopState(str, tot, dim, isSet, count, tr) ==
    [s |-> str, total |-> tot, detectedDim |-> dim, isDimSet |-> isSet,
     partsCount |-> count, trace |-> tr]

\* the iteration returned
Returned(st, r) == [done |-> TRUE, st |-> st, ret |-> r]
\* the iteration reached the end of the loop body
Continued(st) == [done |-> FALSE, st |-> st, ret |-> NoReturn]

\* (mutant) the dimension of a later part never compared
DimensionMismatchNever(st, u) == FALSE

\* isDimSet && !detectedDim.Equals(u.Dimension)
DimensionMismatch(st, u) == st.isDimSet /\ ~Equals(st.detectedDim, u.Dimension)

\* (mutant) the unit's own scale left out
PartValueNoUnitScale(val, scaleRatio, u) == FMul(val, scaleRatio)

\* partVal := val * scaleRatio * u.Scale
PartValue(val, scaleRatio, u) == FMul(FMul(val, scaleRatio), u.Scale)

\* Steps 4 (from the assignment of detectedDim) and 5 of the loop body, and
\* the skip that ends it
ParseValue(N, config, st, val, rest, r) ==
    LET dim == IF st.isDimSet THEN st.detectedDim ELSE r.u.Dimension
        partVal == PartValue(val, r.scale, r.u)
        entry(c) == [partVal |-> partVal, partN |-> c.partN, ok |-> c.ok]
    IN  {IF c.ok
         THEN Continued(LoopState(safeSkipSeps(rest, config.Separators),
                                  Accumulate(N, st.total, c.partN), dim, TRUE,
                                  st.partsCount + 1, Append(st.trace, entry(c))))
         ELSE Returned([st EXCEPT !.detectedDim = dim, !.isDimSet = TRUE,
                                  !.trace = Append(st.trace, entry(c))],
                       Return(FInt(0), dim, "precision loss"))
         : c \in Convert(N, partVal)}

\* (mutant) an iteration that goes on leaves the remaining input as it was
ParsePartNoAdvance(W, i, N, st) ==
    LET config == W.sys[i].Config
        num == parseNumber(st.s)
        s1 == safeSkipSeps(num.rest, config.Separators)
        pu == parseUnit(s1, config.Separators)
        r == Resolve(W, i, pu.unitStr)
    IN  IF MultiPartRefused(config, st.partsCount)
        THEN {Returned(st, Return(FInt(0), DimDimensionless, "multi-part"))}
        ELSE IF num.err # "nil"
        THEN {Returned(st, Return(FInt(0), DimDimensionless, num.err))}
        ELSE IF pu.unitStr = <<>>
        THEN {Returned([st EXCEPT !.s = s1],
                       Return(FInt(0), DimDimensionless, "missing unit"))}
        ELSE IF ~r.found
        THEN {Returned([st EXCEPT !.s = pu.rest],
                       Return(FInt(0), DimDimensionless, "unknown unit"))}
        ELSE IF DimensionMismatch(st, r.u)
        THEN {Returned([st EXCEPT !.s = pu.rest],
                       Return(FInt(0), DimDimensionless, "mixed dimensions"))}
        ELSE {IF o.done THEN o ELSE [o EXCEPT !.st.s = st.s] :
                o \in ParseValue(N, config, [st EXCEPT !.s = pu.rest], num.val, pu.rest, r)}

\* (mutant) the multi-part restriction checked after the dimension check
ParsePartGateLast(W, i, N, st) ==
    LET config == W.sys[i].Config
        num == parseNumber(st.s)
        s1 == safeSkipSeps(num.rest, config.Separators)
        pu == parseUnit(s1, config.Separators)
        r == Resolve(W, i, pu.unitStr)
    IN  IF num.err # "nil"
        THEN {Returned(st, Return(FInt(0), DimDimensionless, num.err))}
        ELSE IF pu.unitStr = <<>>
        THEN {Returned([st EXCEPT !.s = s1],
                       Return(FInt(0), DimDimensionless, "missing unit"))}
        ELSE IF ~r.found
        THEN {Returned([st EXCEPT !.s = pu.rest],
                       Return(FInt(0), DimDimensionless, "unknown unit"))}
        ELSE IF DimensionMismatch(st, r.u)
        THEN {Returned([st EXCEPT !.s = pu.rest],
                       Return(FInt(0), DimDimensionless, "mixed dimensions"))}
        ELSE IF MultiPartRefused(config, st.partsCount)
        THEN {Returned(st, Return(FInt(0), DimDimensionless, "multi-part"))}
        ELSE ParseValue(N, config, [st EXCEPT !.s = pu.rest], num.val, pu.rest, r)

\* One iteration of the loop of Parse, entered with st.s # "": the outcomes.
ParsePart(W, i, N, st) ==
    LET config == W.sys[i].Config
        num == parseNumber(st.s)
        s1 == safeSkipSeps(num.rest, config.Separators)
        pu == parseUnit(s1, config.Separators)
        r == Resolve(W, i, pu.unitStr)
    IN  IF MultiPartRefused(config, st.partsCount)
        THEN {Returned(st, Return(FInt(0), DimDimensionless, "multi-part"))}
        ELSE IF num.err # "nil"
        THEN {Returned(st, Return(FInt(0), DimDimensionless, num.err))}
        ELSE IF pu.unitStr = <<>>
        THEN {Returned([st EXCEPT !.s = s1],
                       Return(FInt(0), DimDimensionless, "missing unit"))}
        ELSE IF ~r.found
        THEN {Returned([st EXCEPT !.s = pu.rest],
                       Return(FInt(0), DimDimensionless, "unknown unit"))}
        ELSE IF DimensionMismatch(st, r.u)
        THEN {Returned([st EXCEPT !.s = pu.rest],
                       Return(FInt(0), DimDimensionless, "mixed dimensions"))}
        ELSE ParseValue(N, config, [st EXCEPT !.s = pu.rest], num.val, pu.rest, r)

\* The registry when the iteration ends.  Parse reads sys.Config and calls
\* sys.Resolve, once the number and the unit symbol have been scanned;
\* nothing else in the loop body touches sys.
PartLeaves(W, i, st) ==
    LET config == W.sys[i].Config
        num == parseNumber(st.s)
        pu == parseUnit(safeSkipSeps(num.rest, config.Separators), config.Separators)
    IN  IF \/ MultiPartRefused(config, st.partsCount)
           \/ num.err # "nil"
           \/ pu.unitStr = <<>>
        THEN W
        ELSE ResolveLeaves(W, i, pu.unitStr)

\* (mutant) the initial skip left out
ParseEntryNoSkip(W, i, str) ==
    LoopState(str, FInt(0), DimDimensionless, FALSE, 0, <<>>)

\* the state Parse enters its loop with
ParseEntry(W, i, str) ==
    LoopState(safeSkipSeps(str, W.sys[i].Config.Separators), FInt(0),
              DimDimensionless, FALSE, 0, <<>>)

\* the loop run to its return: everything Parse can return from st on
RECURSIVE ParseFrom(_, _, _, _)
ParseFrom(W, i, N, st) ==
    IF st.s = <<>> THEN {Return(st.total, st.detectedDim, "nil")}
    ELSE UNION {IF o.done THEN {o.ret} ELSE ParseFrom(W, i, N, o.st)
                : o \in ParsePart(W, i, N, st)}

\* Parse[N](str, sys[i])
Parse(W, i, N, str) == ParseFrom(W, i, N, ParseEntry(W, i, str))

(***************************************************************************)
(* The registry as a state machine: configuration code calls Add,          *)
(* AddPrefix, OverwritePrefix and Clone, in any order, and Resolve.        *)
(***************************************************************************)
\* The symbols the calls are tried with.  Upper-case spellings are tried
\* where the configuration folds case; elsewhere they are only further names.
LowerUnitSymbols == {Str1("b"), Str2("i", "b")}
LowerPrefixSymbols == {Str1("k"), Str2("k", "i"), Str1("i")}
UnitSymbols(ci) == LowerUnitSymbols \cup (IF ci THEN {Str1("B")} ELSE {})
PrefixSymbols(ci) == LowerPrefixSymbols \cup (IF ci THEN {Str1("K")} ELSE {})
UnitDefs == {[scale |-> FInt(1), dim |-> DimStorage], [scale |-> FInt(8), dim |-> DimLength]}
PrefixScales == {FInt(1000), FInt(1024)}
TargetLists(ci) ==
    {<<>>} \cup {<<u>> : u \in UnitSymbols(ci)} \cup {<<Str1("b"), Str2("i", "b")>>}
\* the symbols Resolve is called with
ResolveSymbols ==
    LowerUnitSymbols \cup {p \o u : p \in LowerPrefixSymbols, u \in LowerUnitSymbols}
                     \cup {Str3("K", "I", "B"), Str2("K", "b"), Str1("B"), Str1("x")}

CI(i) == sys[i].Config.CaseInsensitive

SetIds == SysIds \X (LowerUnitSymbols \cup {Str1("B"), Str1("u"), Str1("m")})

TheWorld == World(sys, unitMap, prefArr, wlSet)

SetWorld(W) ==
    /\ sys' = W.sys
    /\ unitMap' = W.unitMap
    /\ prefArr' = W.prefArr
    /\ wlSet' = W.wlSet

Call(op, i, arg, err) == [op |-> op, sys |-> i, arg |-> arg, err |-> err]

\* A call of Add, and a sequence of them applied to system i
AddCall(symbol, d) == [symbol |-> symbol, scale |-> d.scale, dim |-> d.dim]

RECURSIVE AddAll(_, _, _)
AddAll(W, i, calls) ==
    IF calls = <<>> THEN W
    ELSE AddAll(Add(W, i, Head(calls).symbol, Head(calls).scale, Head(calls).dim),
                i, Tail(calls))

AddCalls(ci) == {AddCall(symbol, d) : symbol \in UnitSymbols(ci), d \in UnitDefs}
UnitSetups(ci) ==
    {<<>>} \cup {<<c>> : c \in AddCalls(ci)}
           \cup {<<c, d>> : c \in AddCalls(ci), d \in AddCalls(ci)}

\* The goroutines that call Parse and Resolve on one registry at a time
Callers == {1, 2}

\* a caller between calls, and a caller in a call: which function, its
\* argument and type parameter, where it stands, its locals, what it returned
IdleCall ==
    [pc |-> "idle", op |-> "none", orig |-> <<>>, ptype |-> "float64",
     st |-> LoopState(<<>>, FInt(0), DimDimensionless, FALSE, 0, <<>>),
     ret |-> NoReturn]
NoCalls == [c \in Callers |-> IdleCall]

\* no call of Parse is under way
NoParse ==
    /\ callState = NoCalls
    /\ orig = <<>>
    /\ parts = <<>>
    /\ ptype = "float64"
    /\ pc = "idle"
    /\ sRem = <<>>
    /\ total = FInt(0)
    /\ detectedDim = DimDimensionless
    /\ isDimSet = FALSE
    /\ partsCount = 0
    /\ trace = <<>>
    /\ ret = NoReturn

\* The registry when configuration begins: NewSystem, then the units of the
\* domain registered by Add (every domain registers its units first).
RegInit ==
    /\ \E ci \in BOOLEAN : \E setup \in UnitSetups(ci) :
          LET W0 == World((1 :> NewSystem(SystemConfig(TRUE, ci, <<>>), 1)),
                          [a \in SysIds |-> EmptyMap],
                          [a \in SysIds |-> <<>>], [id \in SetIds |-> {}])
              W == AddAll(W0, 1, setup)
          IN  /\ sys = W.sys
              /\ unitMap = W.unitMap
              /\ prefArr = W.prefArr
              /\ wlSet = W.wlSet
    /\ nops = 0
    /\ last = Call("NewSystem", 1, <<>>, "nil")
    /\ NoParse

DoAdd ==
    /\ nops < MaxOps
    /\ \E i \in DOMAIN sys : \E symbol \in UnitSymbols(CI(i)) : \E d \in UnitDefs :
          /\ SetWorld(Add(TheWorld, i, symbol, d.scale, d.dim))
          /\ last' = Call("Add", i, <<>>, "nil")
    /\ nops' = nops + 1
    /\ UNCHANGED <<parseVars, callState>>

DoAddPrefix ==
    /\ nops < MaxOps
    /\ \E i \in DOMAIN sys : \E p \in PrefixSymbols(CI(i)) : \E scale \in PrefixScales :
       \E targets \in TargetLists(CI(i)) :
       \E r \in AddPrefix(TheWorld, i, p, scale, targets) :
          /\ SetWorld(r.W)
          /\ last' = Call("AddPrefix", i, <<>>, r.err)
    /\ nops' = nops + 1
    /\ UNCHANGED <<parseVars, callState>>

DoOverwritePrefix ==
    /\ nops < MaxOps
    /\ \E i \in DOMAIN sys : \E p \in PrefixSymbols(CI(i)) : \E scale \in PrefixScales :
          LET r == OverwritePrefix(TheWorld, i, p, scale)
          IN  /\ SetWorld(r.W)
              /\ last' = Call("OverwritePrefix", i, <<>>, r.err)
    /\ nops' = nops + 1
    /\ UNCHANGED <<parseVars, callState>>

DoClone ==
    /\ nops < MaxOps
    /\ \E src \in DOMAIN sys : \E dst \in SysIds \ {src} :
          /\ SetWorld(Clone(TheWorld, src, dst))
          /\ last' = Call("Clone", dst, src, "nil")
    /\ nops' = nops + 1
    /\ UNCHANGED <<parseVars, callState>>

\* Resolve reads the registry and writes nothing: whatever system and symbol
\* it is called with, it returns a result that is a function of the state,
\* and the call leaves every variable as it was.
DoResolve ==
    /\ \A i \in DOMAIN sys : \A symbol \in ResolveSymbols :
          Resolve(TheWorld, i, symbol).found \in BOOLEAN
    /\ UNCHANGED vars

Init == RegInit

Next ==
    \/ DoAdd
    \/ DoAddPrefix
    \/ DoOverwritePrefix
    \/ DoClone
    \/ DoResolve

Spec == Init /\ [][Next]_vars

\* The configuration of one registry: started from the registries of one
\* domain (the unit b, alone or with the unit ib, spelled as the domain
\* spells it) and never cloned.  The properties of single calls (what one
\* AddPrefix or OverwritePrefix does to the registry it is called on) are
\* checked on this machine.
CallSetups(ci) ==
    {<<>>,
     <<AddCall(Str1("b"), [scale |-> FInt(1), dim |-> DimStorage])>>,
     <<AddCall(Str1("b"), [scale |-> FInt(1), dim |-> DimStorage]),
       AddCall(Str2("i", "b"), [scale |-> FInt(8), dim |-> DimLength])>>}
    \cup (IF ci THEN {<<AddCall(Str1("B"), [scale |-> FInt(1), dim |-> DimStorage])>>}
                ELSE {})

CallInit ==
    /\ \E ci \in BOOLEAN : \E setup \in CallSetups(ci) :
          LET W0 == World((1 :> NewSystem(SystemConfig(TRUE, ci, <<>>), 1)),
                          [a \in SysIds |-> EmptyMap],
                          [a \in SysIds |-> <<>>], [id \in SetIds |-> {}])
              W == AddAll(W0, 1, setup)
          IN  /\ sys = W.sys
              /\ unitMap = W.unitMap
              /\ prefArr = W.prefArr
              /\ wlSet = W.wlSet
    /\ nops = 0
    /\ last = Call("NewSystem", 1, <<>>, "nil")
    /\ NoParse

\* the calls on one registry: the steps of Next but Clone
CallNext ==
    \/ DoAdd
    \/ DoAddPrefix
    \/ DoOverwritePrefix
    \/ DoResolve

CallSpec == CallInit /\ [][CallNext]_vars

(***************************************************************************)
(* One call of Parse as a state machine: the initial skip, the iterations  *)
(* of the loop, the return after the loop.                                 *)
(***************************************************************************)
\* The registry the call is given: a length unit, a time unit of scale 60,
\* and a prefix of scale 1000 bound to the length unit.
ParseRegistries(multi) ==
    LET W0 == World((1 :> NewSystem(SystemConfig(multi, FALSE, <<>>), 1)),
                    [a \in SysIds |-> EmptyMap],
                    [a \in SysIds |-> <<>>], [id \in SetIds |-> {}])
        W1 == Add(W0, 1, Str1("u"), FInt(1), DimLength)
        W2 == Add(W1, 1, Str1("m"), FInt(60), DimTime)
    IN  {r.W : r \in AddPrefix(W2, 1, Str1("k"), FInt(1000), <<Str1("u")>>)}

\* The inputs: up to MaxParts parts, each a number literal and a unit
\* symbol, written either without any separator or with separators before
\* the number, between number and unit, and after the unit.
NumLit(text, val) == [text |-> text, val |-> val]
NumLits ==
    {NumLit(<<"1">>, Dec(1, 0)), NumLit(<<"1", ".", "5">>, Dec(15, 1)),
     NumLit(<<"1", "e", "-", "1", "3">>, Dec(1, 13)), NumLit(<<"-", "1">>, Dec(-1, 0))}
PartSymbols == {Str1("u"), Str2("k", "u"), Str1("m")}
InputParts == {[num |-> n, sym |-> y] : n \in NumLits, y \in PartSymbols}
Styles == {"tight", "spaced"}

RECURSIVE PartLists(_)
PartLists(n) ==
    IF n = 0 THEN {<<>>}
    ELSE PartLists(n - 1)
         \cup {Append(ps, p) : ps \in {q \in PartLists(n - 1) : Len(q) = n - 1},
                               p \in InputParts}

RECURSIVE PartsText(_, _)
PartsText(ps, style) ==
    IF ps = <<>> THEN <<>>
    ELSE LET p == Head(ps)
         IN  (IF style = "spaced"
              THEN p.num.text \o <<" ">> \o p.sym \o <<",", " ">>
              ELSE p.num.text \o p.sym) \o PartsText(Tail(ps), style)

InputText(ps, style) == (IF style = "spaced" THEN <<" ">> ELSE <<>>) \o PartsText(ps, style)

\* The value a part stands for: number x prefix scale x unit scale.
GhostResolve(W, p) == Resolve(W, 1, p.sym)
GhostValue(W, p) ==
    LET r == GhostResolve(W, p)
    IN  Norm(Dec(p.num.val.m * r.scale.m * r.u.Scale.m, p.num.val.k + r.scale.k + r.u.Scale.k))

\* The decimal numbers of the model hold nine digits: the float64 inputs
\* whose sums would need more are left out.
SumDigits == 8
SumFits(W, ps) ==
    LET vs == {GhostValue(W, ps[n]) : n \in 1..Len(ps)}
        K == IF vs = {} THEN 0 ELSE CHOOSE k \in {v.k : v \in vs} : \A v \in vs : v.k <= k
    IN  \A v \in vs : v.m = 0 \/ (/\ K - v.k <= SumDigits
                                  /\ Abs(v.m) <= Pow10(SumDigits - (K - v.k)))

ParseInit ==
    /\ \E multi \in BOOLEAN : \E W \in ParseRegistries(multi) :
          /\ sys = W.sys
          /\ unitMap = W.unitMap
          /\ prefArr = W.prefArr
          /\ wlSet = W.wlSet
    /\ nops = 0
    /\ last = Call("NewSystem", 1, <<>>, "nil")
    /\ ptype \in Numbers
    /\ parts \in PartLists(MaxParts)
    /\ IsFloat(ptype) => SumFits(TheWorld, parts)
    /\ \E style \in Styles : orig = InputText(parts, style)
    /\ pc = "start"
    /\ sRem = orig
    /\ total = FInt(0)
    /\ detectedDim = DimDimensionless
    /\ isDimSet = FALSE
    /\ partsCount = 0
    /\ trace = <<>>
    /\ ret = NoReturn
    /\ callState = NoCalls

TheLoopState == LoopState(sRem, total, detectedDim, isDimSet, partsCount, trace)

SetLoopState(st) ==
    /\ sRem' = st.s
    /\ total' = st.total
    /\ detectedDim' = st.detectedDim
    /\ isDimSet' = st.isDimSet
    /\ partsCount' = st.partsCount
    /\ trace' = st.trace

\* var total N ... s = safeSkipSeps(s, sys.Config.Separators)
ParseBegin ==
    /\ pc = "start"
    /\ SetLoopState(ParseEntry(TheWorld, 1, orig))
    /\ pc' = "loop"
    /\ UNCHANGED <<regVars, orig, parts, ptype, ret, callState>>

\* one iteration of for s != ""
ParseLoop ==
    /\ pc = "loop"
    /\ sRem # <<>>
    /\ \E o \in ParsePart(TheWorld, 1, ptype, TheLoopState) :
          /\ SetLoopState(o.st)
          /\ pc' = IF o.done THEN "done" ELSE "loop"
          /\ ret' = o.ret
    /\ UNCHANGED <<regVars, orig, parts, ptype, callState>>

\* return total, detectedDim, nil
ParseReturn ==
    /\ pc = "loop"
    /\ sRem = <<>>
    /\ pc' = "done"
    /\ ret' = Return(total, detectedDim, "nil")
    /\ UNCHANGED <<regVars, callState, orig, parts, ptype, sRem, total, detectedDim, isDimSet,
                   partsCount, trace>>

ParseNext ==
    \/ ParseBegin
    \/ ParseLoop
    \/ ParseReturn

ParseSpec == ParseInit /\ [][ParseNext]_vars

(***************************************************************************)
(* The same call on arbitrary text: every string of up to MaxLen           *)
(* characters over an alphabet of digits, number signs, letters and a      *)
(* separator, with the default separators or with separators "3 m".        *)
(***************************************************************************)
\* The registry: a base unit u of dimension dim, a time unit of scale 60, and
\* a prefix "E" of scale 1000 bound to the base unit.
ScanRegistries(multi, seps, dim) ==
    LET W0 == World((1 :> NewSystem(SystemConfig(multi, FALSE, seps), 1)),
                    [a \in SysIds |-> EmptyMap],
                    [a \in SysIds |-> <<>>], [id \in SetIds |-> {}])
        W1 == Add(W0, 1, Str1("u"), FInt(1), dim)
        W2 == Add(W1, 1, Str1("m"), FInt(60), DimTime)
    IN  {r.W : r \in AddPrefix(W2, 1, Str1("E"), FInt(1000), <<Str1("u")>>)}

ScanAlphabet == {"3", ".", "-", "E", "u", "m", " "}
ScanSeparators == {<<>>, <<"3", " ", "m">>}
ScanNumbers == {"int8", "float64"}
\* the dimension of the base unit u: a length unit or a storage unit
ScanDimensions == {DimLength, DimStorage}

RECURSIVE Strings(_)
Strings(n) ==
    IF n = 0 THEN {<<>>}
    ELSE Strings(n - 1)
         \cup {Append(str, c) : str \in {q \in Strings(n - 1) : Len(q) = n - 1},
                                c \in ScanAlphabet}

\* The decimal numbers of the model hold nine digits: the inputs in which an
\* exponent marker is followed by two digits are left out.
ExponentFits(str) ==
    \A n \in 1..Len(str) :
       str[n] = "E" =>
          LET d == IF n < Len(str) /\ str[n + 1] = "-" THEN n + 2 ELSE n + 1
          IN  ~(d + 1 <= Len(str) /\ IsDigit(str[d]) /\ IsDigit(str[d + 1]))

ScanInputs == {str \in Strings(MaxLen) : ExponentFits(str)}

ScanInit ==
    /\ \E multi \in BOOLEAN : \E seps \in ScanSeparators : \E dim \in ScanDimensions :
       \E W \in ScanRegistries(multi, seps, dim) :
          /\ sys = W.sys
          /\ unitMap = W.unitMap
          /\ prefArr = W.prefArr
          /\ wlSet = W.wlSet
    /\ nops = 0
    /\ last = Call("NewSystem", 1, <<>>, "nil")
    /\ ptype \in ScanNumbers
    /\ parts = <<>>
    /\ orig \in ScanInputs
    /\ pc = "start"
    /\ sRem = orig
    /\ total = FInt(0)
    /\ detectedDim = DimDimensionless
    /\ isDimSet = FALSE
    /\ partsCount = 0
    /\ trace = <<>>
    /\ ret = NoReturn
    /\ callState = NoCalls

ScanSpec == ScanInit /\ [][ParseNext]_vars

\* The registries of ScanSpec whose base unit is a length, with no call of
\* Parse under way
LiveScanInit ==
    /\ \E multi \in BOOLEAN : \E seps \in ScanSeparators :
       \E W \in ScanRegistries(multi, seps, DimLength) :
          /\ sys = W.sys
          /\ unitMap = W.unitMap
          /\ prefArr = W.prefArr
          /\ wlSet = W.wlSet
    /\ nops = 0
    /\ last = Call("NewSystem", 1, <<>>, "nil")
    /\ NoParse

\* Parse[N](str, sys) is called
ParseCall ==
    /\ pc = "idle"
    /\ \E str \in ScanInputs : \E N \in ScanNumbers :
          /\ orig' = str
          /\ sRem' = str
          /\ ptype' = N
    /\ pc' = "start"
    /\ UNCHANGED <<regVars, callState, parts, total, detectedDim, isDimSet, partsCount, trace, ret>>

LiveScanNext ==
    \/ ParseCall
    \/ ParseBegin
    \/ ParseLoop
    \/ ParseReturn

\* A call of Parse is under way
Running == pc \in {"start", "loop"}

\* What every step of a running call does to its position: it enters the
\* loop, ends an iteration (one more part counted) or returns.  Among the
\* steps of LiveScanNext these are exactly the steps of ParseBegin,
\* ParseLoop and ParseReturn, and one of them is possible whenever a call
\* is under way.
Advance ==
    /\ Running
    /\ pc' \in {"loop", "done"}
    /\ partsCount' \in {partsCount, partsCount + 1}

\* Parse is an ordinary function call: nothing obliges the caller to make
\* it, and once made it keeps running: a call under way takes its next
\* step.  Nothing is assumed about how many steps there are.
LiveScanSpec ==
    LiveScanInit /\ [][LiveScanNext]_vars /\ WF_<<pc, partsCount>>(Advance)

(***************************************************************************)
(* The same call with a floating-point type parameter, on inputs whose     *)
(* parts are whole, are fractions that 24 bits hold (0.5, 0.25) or are     *)
(* fractions that they do not hold (0.1), alone and in sums, and on        *)
(* inputs that fail for another reason.                                    *)
(***************************************************************************)
FloatNumbers == {"float32", "float64"}
FloatInputs ==
    {<<"3", "u">>, <<"0", ".", "5", "u">>, <<"0", ".", "1", "u">>,
     <<"0", ".", "1", " ", "E", "u">>, <<"1", ".", "5", "m">>,
     <<"0", ".", "5", "u", " ", "0", ".", "2", "5", "u">>,
     <<"0", ".", "5", "u", "0", ".", "1", "u">>,
     <<"0", ".", "5", "u", "0", ".", "5", "m">>,
     <<"0", ".", "5">>, <<"0", ".", "1", "x">>, <<>>}

FloatInit ==
    /\ \E multi \in BOOLEAN : \E seps \in ScanSeparators :
       \E W \in ScanRegistries(multi, seps, DimLength) :
          /\ sys = W.sys
          /\ unitMap = W.unitMap
          /\ prefArr = W.prefArr
          /\ wlSet = W.wlSet
    /\ nops = 0
    /\ last = Call("NewSystem", 1, <<>>, "nil")
    /\ ptype \in FloatNumbers
    /\ parts = <<>>
    /\ orig \in FloatInputs
    /\ pc = "start"
    /\ sRem = orig
    /\ total = FInt(0)
    /\ detectedDim = DimDimensionless
    /\ isDimSet = FALSE
    /\ partsCount = 0
    /\ trace = <<>>
    /\ ret = NoReturn
    /\ callState = NoCalls

FloatSpec == FloatInit /\ [][ParseNext]_vars

(***************************************************************************)
(* Concurrent use: once configuration is over, several goroutines call     *)
(* Parse and Resolve on the one registry.  A step is what a call does      *)
(* between two of its accesses to the registry: the entry of Parse, one    *)
(* iteration of its loop (one call of Resolve), its return; the steps of   *)
(* the callers interleave in every order.                                  *)
(***************************************************************************)
ConcInputs ==
    {<<>>, <<"3", "u">>, <<"3", "E", "u">>, <<"3", " ", "E", "u">>,
     <<"3", "u", "3", "m">>, <<"3", "u", " ", "3", "u">>, <<"3", "x">>,
     <<".", "3", "u">>, <<"u">>}
ConcSymbols == {Str1("u"), Str2("E", "u"), Str2("E", "m"), Str1("x")}

ConcInit ==
    /\ \E multi \in BOOLEAN : \E seps \in ScanSeparators :
       \E W \in ScanRegistries(multi, seps, DimLength) :
          /\ sys = W.sys
          /\ unitMap = W.unitMap
          /\ prefArr = W.prefArr
          /\ wlSet = W.wlSet
    /\ nops = 0
    /\ last = Call("NewSystem", 1, <<>>, "nil")
    /\ NoParse

\* a caller calls Parse[N](str, sys)
CallParse ==
    /\ \E c \in Callers : \E str \in ConcInputs : \E N \in ScanNumbers :
          /\ callState[c].pc = "idle"
          /\ callState' = [callState EXCEPT ![c] =
                 [IdleCall EXCEPT !.pc = "start", !.op = "Parse",
                                  !.orig = str, !.ptype = N]]
    /\ UNCHANGED <<regVars, parseVars>>

\* a caller calls sys.Resolve(symbol), which runs to its return
CallResolve ==
    /\ \E c \in Callers : \E symbol \in ConcSymbols :
          /\ callState[c].pc = "idle"
          /\ callState' = [callState EXCEPT ![c] =
                 [IdleCall EXCEPT !.pc = "done", !.op = "Resolve", !.orig = symbol,
                                  !.ret = Resolve(TheWorld, 1, symbol)]]
          /\ SetWorld(ResolveLeaves(TheWorld, 1, symbol))
    /\ UNCHANGED <<nops, last, parseVars>>

\* a call of Parse reaches its loop
StepBegin ==
    /\ \E c \in Callers :
          /\ callState[c].pc = "start"
          /\ callState' = [callState EXCEPT
                 ![c].st = ParseEntry(TheWorld, 1, callState[c].orig),
                 ![c].pc = "loop"]
    /\ UNCHANGED <<regVars, parseVars>>

\* a call of Parse runs one iteration of its loop
StepPart ==
    /\ \E c \in Callers :
          /\ callState[c].pc = "loop"
          /\ callState[c].st.s # <<>>
          /\ \E o \in ParsePart(TheWorld, 1, callState[c].ptype, callState[c].st) :
                callState' = [callState EXCEPT
                    ![c].st = o.st,
                    ![c].pc = IF o.done THEN "done" ELSE "loop",
                    ![c].ret = o.ret]
          /\ SetWorld(PartLeaves(TheWorld, 1, callState[c].st))
    /\ UNCHANGED <<nops, last, parseVars>>

\* a call of Parse finds its input consumed and returns
StepReturn ==
    /\ \E c \in Callers :
          /\ callState[c].pc = "loop"
          /\ callState[c].st.s = <<>>
          /\ callState' = [callState EXCEPT
                 ![c].pc = "done",
                 ![c].ret = Return(callState[c].st.total, callState[c].st.detectedDim, "nil")]
    /\ UNCHANGED <<regVars, parseVars>>

ConcNext ==
    \/ CallParse
    \/ CallResolve
    \/ StepBegin
    \/ StepPart
    \/ StepReturn

ConcSpec == ConcInit /\ [][ConcNext]_vars

(***************************************************************************)
(* Properties of the registry.                                             *)
(***************************************************************************)
Keys(i) == DOMAIN Units(TheWorld, sys[i])
UnitAt(i, key) == Units(TheWorld, sys[i])[key]
PrefixSet(i) == {prefArr[sys[i].prefixes][n] : n \in 1..Len(prefArr[sys[i].prefixes])}
Whitelist(i, u) ==
    IF u \in DOMAIN sys[i].unitPrefixes THEN wlSet[sys[i].unitPrefixes[u]] ELSE {}
\* prefix p is bound to the registered unit key u
Bound(i, p, u) == u \in Keys(i) /\ p.Symbol \in Whitelist(i, u)
\* the prefixes of system i that give a whitelisted decomposition of key s:
\* s is the prefix symbol followed by a non-empty unit key it is bound to
Decomps(i, s) ==
    {p \in PrefixSet(i) :
        \E u \in Keys(i) : u # <<>> /\ p.Symbol \o u = s /\ Bound(i, p, u)}

\* C1: in every reachable registry, a symbol whose normalised form is a
\* registered unit key resolves to that unit with prefix scale exactly 1,
\* also when a whitelisted prefix + unit decomposition of it exists.
C1_ExactUnitWins ==
    \A i \in DOMAIN sys : \A s \in ResolveSymbols :
        LET key == normalizeKey(sys[i], s)
        IN  key \in Keys(i) =>
                Resolve(TheWorld, i, s) = Found(UnitAt(i, key), FInt(1))

\* a unit "ib" beside a prefix "i" bound to the unit "b", resolved as the unit
C1_Witness ==
    \E i \in DOMAIN sys :
        /\ Str2("i", "b") \in Keys(i)
        /\ Decomps(i, Str2("i", "b")) # {}
        /\ Resolve(TheWorld, i, Str2("i", "b")) = Found(UnitAt(i, Str2("i", "b")), FInt(1))

\* C2 as stated: for every registered prefix p bound to a registered unit u,
\* Resolve(p+u) returns unit u with the scale of p.
C2_BoundPrefixResolves ==
    \A i \in DOMAIN sys : \A p \in PrefixSet(i) : \A u \in Keys(i) :
        Bound(i, p, u) =>
            Resolve(TheWorld, i, p.Symbol \o u) = Found(UnitAt(i, u), p.Scale)

\* p+u is itself a unit key, or a longer prefix also decomposes it
Shadowed(i, p, u) ==
    \/ p.Symbol \o u \in Keys(i)
    \/ \E q \in Decomps(i, p.Symbol \o u) : Len(q.Symbol) > Len(p.Symbol)

\* C2 amended: for every registered prefix p bound to a registered unit u,
\* Resolve(p+u) returns unit u with the scale of p, unless p+u is itself a
\* registered unit key or a longer registered prefix gives a whitelisted
\* decomposition of p+u.
C2_BoundPrefixResolvesUnlessShadowed ==
    \A i \in DOMAIN sys : \A p \in PrefixSet(i) : \A u \in Keys(i) :
        (Bound(i, p, u) /\ ~Shadowed(i, p, u)) =>
            Resolve(TheWorld, i, p.Symbol \o u) = Found(UnitAt(i, u), p.Scale)

\* "ki" bound to "b", nothing shadowing it, and "kib" resolved by it
C2_Witness ==
    \E i \in DOMAIN sys : \E p \in PrefixSet(i) :
        /\ p.Symbol = Str2("k", "i")
        /\ Bound(i, p, Str1("b"))
        /\ ~Shadowed(i, p, Str1("b"))
        /\ Resolve(TheWorld, i, Str3("k", "i", "b")) = Found(UnitAt(i, Str1("b")), p.Scale)

\* C3 as stated: when prefix p and unit u are both registered and p is not
\* in the whitelist of u, Resolve(p+u) returns not-found.
C3_UnboundPrefixNotFound ==
    \A i \in DOMAIN sys : \A p \in PrefixSet(i) : \A u \in Keys(i) :
        ~Bound(i, p, u) => Resolve(TheWorld, i, p.Symbol \o u) = NotFound

\* C3 amended: when prefix p and unit u are both registered and p is not in
\* the whitelist of u, Resolve(p+u) returns not-found unless p+u is itself a
\* registered unit key or another registered prefix gives a whitelisted
\* decomposition of p+u.
C3_UnboundPrefixNotFoundUnlessOtherReading ==
    \A i \in DOMAIN sys : \A p \in PrefixSet(i) : \A u \in Keys(i) :
        (/\ ~Bound(i, p, u)
         /\ p.Symbol \o u \notin Keys(i)
         /\ Decomps(i, p.Symbol \o u) = {}) =>
            Resolve(TheWorld, i, p.Symbol \o u) = NotFound

\* "k" and "ib" registered, "k" not bound to "ib", and "kib" not found
C3_Witness ==
    \E i \in DOMAIN sys : \E p \in PrefixSet(i) :
        /\ p.Symbol = Str1("k")
        /\ Str2("i", "b") \in Keys(i)
        /\ ~Bound(i, p, Str2("i", "b"))
        /\ Resolve(TheWorld, i, Str3("k", "i", "b")) = NotFound

\* C4: a symbol that is no unit key and has whitelisted decompositions
\* resolves by the one with the longest prefix symbol.
C4_LongestPrefixWins ==
    \A i \in DOMAIN sys : \A s \in ResolveSymbols :
        LET key == normalizeKey(sys[i], s)
            D == Decomps(i, key)
        IN  (key \notin Keys(i) /\ D # {}) =>
                \E q \in D :
                    /\ \A p \in D : Len(p.Symbol) <= Len(q.Symbol)
                    /\ Resolve(TheWorld, i, s) =
                         Found(UnitAt(i, Drop(key, Len(q.Symbol))), q.Scale)

\* "kib" reads as "k"+"ib" and as "ki"+"b", and "kib" is resolved by "ki"
C4_Witness ==
    \E i \in DOMAIN sys : \E q \in PrefixSet(i) :
        /\ q.Symbol = Str2("k", "i")
        /\ Cardinality(Decomps(i, Str3("k", "i", "b"))) >= 2
        /\ Resolve(TheWorld, i, Str3("k", "i", "b")) = Found(UnitAt(i, Str1("b")), q.Scale)

\* what a system resolves every examined symbol to
ResolveAll(W, i) == [s \in ResolveSymbols |-> Resolve(W, i, s)]

Returns == pc = "done"
MultiPartAllowed == sys[1].Config.AllowMultiPart
PartResolves(n) == GhostResolve(TheWorld, parts[n]).found
PartDim(n) == GhostResolve(TheWorld, parts[n]).u.Dimension
PartVal(n) == GhostValue(TheWorld, parts[n])
SameDimensions == \A n \in 1..Len(parts) : PartDim(n) = PartDim(1)

\* v is further than 1e-12 from every whole number.  A normalised m / 10^k
\* with 0 < k < 12 is at least 10^-11 away; with k >= 12 the values of the
\* model lie within 1/2 of 0, which is then the nearest whole number.
FarFromWhole(v) ==
    /\ v.k # 0
    /\ v.k >= 12 => Abs(v.m) > Pow10(v.k - 12)

\* the whole number nearest to a v that is not far from one
NearestWhole(v) == IF v.k = 0 THEN v.m ELSE 0

\* the precision check lets v into N
PassesPrecision(N, v) == N = "float64" \/ ~FarFromWhole(v)

\* N holds v to within 1e-12
Representable(N, v) ==
    \/ N = "float64"
    \/ /\ ~FarFromWhole(v)
       /\ N = "int8" => NearestWhole(v) \in -128..127
       /\ N = "uint8" => NearestWhole(v) \in 0..255

\* x + y in N: the sum for float64, the sum modulo 2^8 in the 8-bit types
SumInN(N, x, y) ==
    IF N = "float64" THEN FAdd(x, y)
    ELSE IF N = "int8" THEN FInt(CHOOSE z \in -128..127 : (z - (x.m + y.m)) % 256 = 0)
    ELSE IF N = "uint8" THEN FInt(CHOOSE z \in 0..255 : (z - (x.m + y.m)) % 256 = 0)
    ELSE FInt(x.m + y.m)

\* the sum in N of the converted values of the first n parts reached
RECURSIVE TraceSum(_, _)
TraceSum(N, n) == IF n = 0 THEN FInt(0) ELSE SumInN(N, TraceSum(N, n - 1), trace[n].partN)

\* what the same input gives when parsed into float64
AsFloat64 == Parse(TheWorld, 1, "float64", orig)

C6_AcceptedPartsRoundTrip ==
    Returns =>
       /\ ret.err = "nil" =>
             \A n \in 1..Len(trace) :
                WithinEpsilon(ToFloat64(ptype, trace[n].partN), trace[n].partVal)
       /\ (\E n \in 1..Len(trace) : ~Representable(ptype, trace[n].partVal))
             => ret.err = "precision loss"

\* The value v converted to N: the whole number v is within 1e-12 of, when
\* there is one and N holds it, and v itself when v is further from the
\* whole numbers (then N is float64).  A whole number outside the range of N
\* converts to whatever the conversion gave, here got.
Converted(N, v, got) ==
    IF FarFromWhole(v) THEN v
    ELSE IF Representable(N, v) THEN FInt(NearestWhole(v))
    ELSE got

\* C7: with multi-part allowed, an input of k >= 1 parts that resolve to one
\* dimension and pass the precision check parses to the sum, in N, of the
\* converted values number x prefix scale x unit scale of its parts, each
\* part counted once.
C7_MultiPartSum ==
    (/\ Returns
     /\ MultiPartAllowed
     /\ parts # <<>>
     /\ \A n \in 1..Len(parts) : PartResolves(n) /\ PassesPrecision(ptype, PartVal(n))
     /\ SameDimensions)
    => /\ ret.err = "nil"
       /\ Len(trace) = Len(parts)
       /\ \A n \in 1..Len(parts) :
             /\ trace[n].partVal = PartVal(n)
             /\ trace[n].partN = Converted(ptype, PartVal(n), trace[n].partN)
       /\ ret.val = TraceSum(ptype, Len(parts))

\* "1ku" and "1u" in one input, parsed into int64: 1001
C7_Witness ==
    /\ Returns
    /\ MultiPartAllowed
    /\ ptype = "int64"
    /\ Len(parts) = 2
    /\ PartVal(1) = FInt(1000)
    /\ ret.err = "nil"
    /\ ret.val = FInt(1001)

\* C8: with multi-part not allowed, an input of one well-formed part parses
\* to that part's value, and an input of two or more well-formed parts of
\* one dimension fails with the multi-part error and returns zero, whether
\* or not separators stand between the parts.
C8_MultiPartRefused ==
    (/\ Returns
     /\ ~MultiPartAllowed
     /\ parts # <<>>
     /\ \A n \in 1..Len(parts) : PartResolves(n) /\ PassesPrecision(ptype, PartVal(n))
     /\ SameDimensions)
    => IF Len(parts) = 1
       THEN /\ ret.err = "nil"
            /\ Len(trace) = 1
            /\ trace[1].partVal = PartVal(1)
            /\ ret.val = trace[1].partN
            /\ ret.dim = PartDim(1)
       ELSE /\ ret.err = "multi-part"
            /\ ret.val = FInt(0)
            /\ ret.dim = DimDimensionless

\* two parts without a separator between them, refused
C8_Witness ==
    /\ Returns
    /\ ~MultiPartAllowed
    /\ Len(parts) = 2
    /\ Len(orig) = Len(parts[1].num.text) + Len(parts[1].sym)
                   + Len(parts[2].num.text) + Len(parts[2].sym)
    /\ SameDimensions
    /\ ret.err = "multi-part"

\* C9 (as stated): in an input of several parts a part whose dimension is
\* not the first part's makes Parse fail with the mixed-dimensions error,
\* and on success the dimension returned is the first part's.
C9_MixedDimensionsFail ==
    (Returns /\ parts # <<>>)
    => /\ ~SameDimensions => ret.err = "mixed dimensions"
       /\ ret.err = "nil" => ret.dim = PartDim(1)

\* the first part whose dimension is not the first part's
FirstMismatch ==
    CHOOSE n \in 1..Len(parts) :
       /\ PartDim(n) # PartDim(1)
       /\ \A j \in 1..(n - 1) : PartDim(j) = PartDim(1)

\* C9 (amended): a part whose dimension is not the first part's makes Parse
\* fail; the error is the mixed-dimensions error when multi-part is allowed
\* and every part before the first such part passes the precision check,
\* and otherwise the multi-part or precision-loss error raised before that
\* part is compared.  On success the dimension returned is the first part's.
C9_MixedDimensionsFailAfterEarlierChecks ==
    (Returns /\ parts # <<>>)
    => /\ ~SameDimensions =>
             /\ ret.err \in {"mixed dimensions", "multi-part", "precision loss"}
             /\ ret.val = FInt(0)
             /\ (/\ MultiPartAllowed
                 /\ \A j \in 1..(FirstMismatch - 1) : PassesPrecision(ptype, PartVal(j)))
                   => ret.err = "mixed dimensions" /\ ret.dim = DimDimensionless
             /\ ~MultiPartAllowed => ret.err \in {"multi-part", "precision loss"}
       /\ ret.err = "nil" => ret.dim = PartDim(1) /\ SameDimensions

\* a length and a time in one input, multi-part allowed
C9_Witness ==
    /\ Returns
    /\ MultiPartAllowed
    /\ Len(parts) = 2
    /\ PartDim(1) = DimLength
    /\ PartDim(2) = DimTime
    /\ ret.err = "mixed dimensions"

(***************************************************************************)
(* Properties of Parse on arbitrary text.                                  *)
(***************************************************************************)
\* the separator characters of the configuration
Separators == sys[1].Config.Separators
SeparatorSet ==
    IF Separators = <<>> THEN {" ", "\t", "\n", "\r", ",", ";", "|", "/"}
    ELSE {Separators[n] : n \in 1..Len(Separators)}
NumberStarts == {"0", "1", "2", "3", "4", "5", "6", "7", "8", "9", ".", "+", "-"}

\* str is made only of separators that cannot start a number
OnlySeparators(str) ==
    \A n \in 1..Len(str) : str[n] \in SeparatorSet \ NumberStarts

\* C11: the empty string, and a string made only of configured separators
\* that cannot start a number, parse to zero, the dimensionless dimension
\* and no error, whatever the configuration and the target type.
C11_EmptyInputIsZero ==
    (Returns /\ OnlySeparators(orig))
    => ret = Return(FInt(0), DimDimensionless, "nil")

\* a space and a configured letter separator, parsed to zero
C11_Witness ==
    /\ Returns
    /\ orig = <<" ", "m">>
    /\ OnlySeparators(orig)
    /\ ret = Return(FInt(0), DimDimensionless, "nil")

\* ---------------------------------------------------------------------
\* Further properties of the registry
\* ---------------------------------------------------------------------

\* the registry of system i in world W: its prefix slice, its units, and
\* the whitelist of unit key u
PrefixesIn(W, i) == W.prefArr[W.sys[i].prefixes]
UnitsIn(W, i) == Units(W, W.sys[i])
WhitelistIn(W, i, u) ==
    IF u \in DOMAIN W.sys[i].unitPrefixes THEN W.wlSet[W.sys[i].unitPrefixes[u]] ELSE {}
WhitelistKeys == LowerUnitSymbols \cup {Str1("B")}

\* the calls of AddPrefix on system i, as records of their arguments
AddPrefixCalls(i) ==
    {[p |-> p, scale |-> scale, targets |-> targets] :
        p \in PrefixSymbols(CI(i)), scale \in PrefixScales, targets \in TargetLists(CI(i))}
AddPrefixOutcomes(i, c) == AddPrefix(TheWorld, i, c.p, c.scale, c.targets)
\* the normalised keys of the targets of call c, and whether all are registered
TargetKeys(i, c) == {normalizeKey(sys[i], c.targets[n]) : n \in 1..Len(c.targets)}
TargetsRegistered(i, c) == TargetKeys(i, c) \subseteq Keys(i)
\* the position in the slice of the prefix call c names, 0 when it has none
Existing(i, c) == FindPrefix(PrefixesIn(TheWorld, i), normalizeKey(sys[i], c.p))

\* the calls of OverwritePrefix on system i
OverwritePrefixCalls(i) ==
    {[p |-> p, scale |-> scale] : p \in PrefixSymbols(CI(i)), scale \in PrefixScales}
OverwriteOutcome(i, c) == OverwritePrefix(TheWorld, i, c.p, c.scale)

\* two symbols, or two lists of symbols, that differ only in letter case
SameFold(a, b) == ToLower(a) = ToLower(b)
SameFoldList(a, b) ==
    /\ Len(a) = Len(b)
    /\ \A n \in 1..Len(a) : SameFold(a[n], b[n])

\* every key the registry of system i holds is in normalised (lower) case
KeysFolded(i) ==
    /\ \A k \in Keys(i) : ToLower(k) = k
    /\ \A p \in PrefixSet(i) : ToLower(p.Symbol) = p.Symbol
    /\ \A u \in DOMAIN sys[i].unitPrefixes :
          /\ ToLower(u) = u
          /\ \A q \in Whitelist(i, u) : ToLower(q) = q

\* the folded spelling of a list of symbols
RECURSIVE FoldList(_)
FoldList(a) == IF a = <<>> THEN <<>> ELSE <<ToLower(Head(a))>> \o FoldList(Tail(a))

\* Resolve does not tell apart two spellings of a symbol: each spelling
\* resolves as the folded one does, hence any two of them alike
ResolveFolds(i) ==
    \A a \in ResolveSymbols :
        ToLower(a) # a => Resolve(TheWorld, i, a) = Resolve(TheWorld, i, ToLower(a))

\* Add of two spellings writes the same entry: the registries differ in
\* nothing but the spelling kept in the Symbol field of that entry
AddFolds(i) ==
    \A a \in {b \in UnitSymbols(TRUE) : ToLower(b) # b} : \A d \in UnitDefs :
        LET Wa == Add(TheWorld, i, a, d.scale, d.dim)
            Wb == Add(TheWorld, i, ToLower(a), d.scale, d.dim)
            key == ToLower(a)
        IN  /\ key \in DOMAIN Wa.unitMap[sys[i].units]
            /\ DOMAIN Wa.unitMap[sys[i].units] = DOMAIN Wb.unitMap[sys[i].units]
            /\ Wa = [Wb EXCEPT !.unitMap[sys[i].units][key].Symbol = a]

\* AddPrefix and OverwritePrefix of any spelling have the outcomes of the
\* folded spelling, hence of every other spelling
AddPrefixFolds(i) ==
    \A c \in AddPrefixCalls(i) :
        (ToLower(c.p) # c.p \/ FoldList(c.targets) # c.targets) =>
            AddPrefixOutcomes(i, c) =
                AddPrefix(TheWorld, i, ToLower(c.p), c.scale, FoldList(c.targets))

OverwritePrefixFolds(i) ==
    \A c \in {d \in OverwritePrefixCalls(i) : ToLower(d.p) # d.p} :
        OverwriteOutcome(i, c) = OverwritePrefix(TheWorld, i, ToLower(c.p), c.scale)

\* C12: in a case-insensitive registry Resolve returns the same unit, prefix
\* scale and found flag for any two symbols that differ only in letter case,
\* every key the registry holds is the folded one, and Add, AddPrefix and
\* OverwritePrefix called with two spellings of a symbol act on the same unit
\* or prefix entry.
C12_CaseInsensitive ==
    \A i \in DOMAIN sys :
        CI(i) => /\ KeysFolded(i)
                 /\ ResolveFolds(i)
                 /\ AddFolds(i)
                 /\ AddPrefixFolds(i)
                 /\ OverwritePrefixFolds(i)

\* a case-insensitive registry with the unit added as "B" and the prefix
\* "k" bound to it: "b", "B", "kb" and "Kb" all resolve, the last two alike
C12_Witness ==
    /\ CI(1)
    /\ last.op = "AddPrefix" /\ last.err = "nil"
    /\ Str1("b") \in Keys(1)
    /\ UnitAt(1, Str1("b")).Symbol = Str1("B")
    /\ Resolve(TheWorld, 1, Str1("B")).found
    /\ Resolve(TheWorld, 1, Str2("K", "b")).found
    /\ Resolve(TheWorld, 1, Str2("K", "b")).scale # FInt(1)
    /\ Resolve(TheWorld, 1, Str2("K", "b")) = Resolve(TheWorld, 1, Str2("k", "b"))

NoDuplicatePrefix(i) ==
    LET arr == PrefixesIn(TheWorld, i)
    IN  \A a \in 1..Len(arr) : \A b \in 1..Len(arr) :
            a # b => arr[a].Symbol # arr[b].Symbol

\* a call naming an existing prefix with another scale is an error and
\* leaves the slice, hence that prefix's scale, as it was
ConflictKeepsScale(i, c) ==
    \A r \in AddPrefixOutcomes(i, c) :
        /\ r.err # "nil"
        /\ PrefixesIn(r.W, i) = PrefixesIn(TheWorld, i)

\* a call naming an existing prefix with its scale adds no entry to the
\* slice, leaves the units alone, and adds nothing to the whitelists but the
\* prefix, to target units of the call
OnlyBinds(i, r, pKey, targetKeys) ==
    /\ r.W.prefArr = prefArr
    /\ r.W.unitMap = unitMap
    /\ \A u \in WhitelistKeys :
          LET old == Whitelist(i, u)
              new == WhitelistIn(r.W, i, u)
          IN  IF u \in targetKeys
              THEN /\ old \subseteq new
                   /\ new \subseteq old \cup {pKey}
                   /\ r.err = "nil" => pKey \in new
              ELSE new = old

MergeOnlyBinds(i, c) ==
    LET pKey == normalizeKey(sys[i], c.p)
        targetKeys == TargetKeys(i, c)
    IN  \A r \in AddPrefixOutcomes(i, c) : OnlyBinds(i, r, pKey, targetKeys)

MergeSucceeds(i, c) == \A r \in AddPrefixOutcomes(i, c) : r.err = "nil"
MergeSucceedsIfRegistered(i, c) ==
    LET registered == TargetsRegistered(i, c)
    IN  \A r \in AddPrefixOutcomes(i, c) : r.err = "nil" <=> registered

\* what C13 asks of call c when the prefix it names is at position n of the
\* slice, with the success of the merge as stated or as amended
ReAdd(i, c, n, amendedForm) ==
    IF PrefixesIn(TheWorld, i)[n].Scale # c.scale
    THEN ConflictKeepsScale(i, c)
    ELSE /\ IF amendedForm THEN MergeSucceedsIfRegistered(i, c) ELSE MergeSucceeds(i, c)
         /\ MergeOnlyBinds(i, c)

\* C13 (as stated): the prefix slice holds at most one entry per normalised
\* symbol; AddPrefix of an existing symbol with another scale is an error and
\* keeps the scale; AddPrefix of an existing symbol with the same scale
\* succeeds, adds no duplicate and only adds its targets to the whitelists.
C13_OneEntryPerPrefix ==
    \A i \in DOMAIN sys :
        /\ NoDuplicatePrefix(i)
        /\ PrefixesIn(TheWorld, i) # <<>> =>
              \A c \in AddPrefixCalls(i) :
                  LET n == Existing(i, c)
                  IN  n # 0 => ReAdd(i, c, n, FALSE)

\* C13 (amended): as above, but the call with the same scale succeeds exactly
\* when every target unit it lists is registered; whether it succeeds or not
\* it adds no duplicate and only adds the prefix to whitelists of its targets.
C13_OneEntryPerPrefixMergeIfRegistered ==
    \A i \in DOMAIN sys :
        /\ NoDuplicatePrefix(i)
        /\ PrefixesIn(TheWorld, i) # <<>> =>
              \A c \in AddPrefixCalls(i) :
                  LET n == Existing(i, c)
                  IN  n # 0 => ReAdd(i, c, n, TRUE)

\* a second AddPrefix of a registered prefix has been refused for its scale,
\* and the slice still holds the one entry
C13_Witness ==
    /\ nops = 2
    /\ last.op = "AddPrefix" /\ last.err = "conflict"
    /\ Len(PrefixesIn(TheWorld, 1)) = 1
    /\ \E c \in AddPrefixCalls(1) :
          /\ Existing(1, c) # 0
          /\ PrefixesIn(TheWorld, 1)[Existing(1, c)].Scale = c.scale
          /\ c.targets # <<>>
          /\ TargetsRegistered(1, c)
          /\ \E r \in AddPrefixOutcomes(1, c) : r.W # TheWorld

\* C14: a call of AddPrefix that returns an error (conflicting scale, or a
\* target unit that is not registered) leaves the registry as it was: no
\* prefix entry added, no whitelist binding added, and Resolve returning
\* what it returned before for every symbol.
C14_RejectedAddPrefixChangesNothing ==
    \A i \in DOMAIN sys : \A c \in AddPrefixCalls(i) :
    \A r \in AddPrefixOutcomes(i, c) :
        r.err # "nil" =>
            /\ PrefixesIn(r.W, i) = PrefixesIn(TheWorld, i)
            /\ \A u \in WhitelistKeys : WhitelistIn(r.W, i, u) = Whitelist(i, u)
            /\ ResolveAll(r.W, i) = ResolveAll(TheWorld, i)

\* Resolve of symbol in system i of world W decomposes through the prefix
\* with key pKey: no exact match, and the first prefix that matches is pKey
Through(W, i, symbol, pKey) ==
    LET S == W.sys[i]
        lookupSymbol == normalizeKey(S, symbol)
        arr == PrefixesIn(W, i)
        hits == {n \in 1..Len(arr) : PrefixMatches(W, S, arr[n], lookupSymbol)}
    IN  /\ lookupSymbol \notin DOMAIN UnitsIn(W, i)
        /\ hits # {}
        /\ arr[CHOOSE h \in hits : \A j \in hits : h <= j].Symbol = pKey

\* the effect of an overwrite of the registered prefix at position n on the
\* registry: no error, the slice the old one but for the scale at n, and
\* the world the old one but for that slice
OverwriteFrame(i, c, n) ==
    LET r == OverwriteOutcome(i, c)
        old == PrefixesIn(TheWorld, i)
        new == PrefixesIn(r.W, i)
    IN  /\ r.err = "nil"
        /\ Len(new) = Len(old)
        /\ \A a \in 1..Len(old) :
              /\ new[a].Symbol = old[a].Symbol
              /\ new[a].Scale = (IF a = n THEN c.scale ELSE old[a].Scale)
        /\ r.W = [TheWorld EXCEPT !.prefArr[sys[i].prefixes] = new]

\* the calls of OverwritePrefix on system i that name a registered prefix
OverwritesOfExisting(i) ==
    {c \in OverwritePrefixCalls(i) :
        FindPrefix(PrefixesIn(TheWorld, i), normalizeKey(sys[i], c.p)) # 0}

\* its effect on the resolution of symbol: found flag and unit as before,
\* the scale s when the resolution afterwards decomposes through the
\* prefix, the scale as before when it does not
OverwriteResolves(i, symbol) ==
    LET before == Resolve(TheWorld, i, symbol)
    IN  \A c \in OverwritesOfExisting(i) :
            LET W2 == OverwriteOutcome(i, c).W
                after == Resolve(W2, i, symbol)
            IN  /\ after.found = before.found
                /\ after.u = before.u
                /\ after.scale = (IF Through(W2, i, symbol, normalizeKey(sys[i], c.p))
                                  THEN c.scale ELSE before.scale)

\* C15: OverwritePrefix(p, s) of a registered prefix returns no error and
\* changes only the scale of that prefix: units, whitelists, the order and
\* every other scale of the prefix list and the set of resolvable symbols
\* stay, and exactly the resolutions that decompose through p now carry the
\* scale s.  Of a prefix that is not registered it returns an error and
\* changes nothing.
C15_OverwriteOnlyScale ==
    \A i \in DOMAIN sys :
        /\ \A c \in OverwritePrefixCalls(i) :
              LET n == FindPrefix(PrefixesIn(TheWorld, i), normalizeKey(sys[i], c.p))
              IN  IF n # 0
                  THEN OverwriteFrame(i, c, n)
                  ELSE /\ OverwriteOutcome(i, c).err = "not found"
                       /\ OverwriteOutcome(i, c).W = TheWorld
        /\ PrefixesIn(TheWorld, i) # <<>> =>
              \A symbol \in ResolveSymbols : OverwriteResolves(i, symbol)

\* the prefix k, bound to the unit b, has just been
\* overwritten to 1024: "kb" resolves with 1024, and overwriting it again
\* with 1000 would change that resolution and nothing else
C15_Witness ==
    /\ last.op = "OverwritePrefix" /\ last.err = "nil"
    /\ Bound(1, Prefix(Str1("k"), FInt(1024)), Str1("b"))
    /\ Prefix(Str1("k"), FInt(1024)) \in PrefixSet(1)
    /\ Resolve(TheWorld, 1, Str2("k", "b")) = Found(UnitAt(1, Str1("b")), FInt(1024))
    /\ Through(TheWorld, 1, Str2("k", "b"), Str1("k"))
    /\ Resolve(OverwritePrefix(TheWorld, 1, Str1("k"), FInt(1000)).W, 1, Str2("k", "b")).scale
          = FInt(1000)

\* ---------------------------------------------------------------------
\* Properties of the scanners
\* ---------------------------------------------------------------------

IsNumberStart(c) == c \in NumberStarts
\* the configured separators that cannot start a number, and the world with
\* the registry configured with them alone
PlainSeparators == SelectSeq(Separators, LAMBDA c : ~IsNumberStart(c))
PlainWorld == [TheWorld EXCEPT !.sys[1].Config.Separators = PlainSeparators]

\* what the skip does to the text str: it drops a run of separators none of
\* which can start a number, and stops at the end of the text or at a
\* character that starts a number or is no separator
SkipKeepsNumberStart(str) ==
    LET rest == safeSkipSeps(str, Separators)
        n == Len(str) - Len(rest)
    IN  /\ n >= 0
        /\ rest = Drop(str, n)
        /\ \A j \in 1..n : str[j] \in SeparatorSet /\ ~IsNumberStart(str[j])
        /\ rest # <<>> => (IsNumberStart(rest[1]) \/ rest[1] \notin SeparatorSet)

\* C16: the separator skip never drops a character that can start a number,
\* also when that character is a configured separator: at every position of
\* the input it drops only separators that are no number start, and Parse
\* returns what it returns in the registry configured without the
\* number-start separators (with "3" a separator, "3u3u" is the parts 3u and
\* 3u).
C16_SkipKeepsNumberStarts ==
    /\ \A n \in 0..Len(orig) : SkipKeepsNumberStart(Drop(orig, n))
    /\ (Returns /\ PlainSeparators # <<>>) =>
          /\ ret \in Parse(PlainWorld, 1, ptype, orig)
          /\ Parse(TheWorld, 1, ptype, orig) = Parse(PlainWorld, 1, ptype, orig)

\* "3u3u" parsed with the separators "3", " " and "m": two parts, total 6
C16_Witness ==
    /\ Returns
    /\ Separators = <<"3", " ", "m">>
    /\ PlainSeparators = <<" ", "m">>
    /\ orig = <<"3", "u", "3", "u">>
    /\ ptype = "float64"
    /\ partsCount = 2
    /\ ret = Return(FInt(6), DimLength, "nil")

\* The grammar of a number: [+-]? digit* ('.' digit*)? ([eE] [+-]? digit+)?
\* the length of the sign, of the mantissa after it, and of the exponent
\* after that (0 when the marker is not followed by a digit or a sign and a
\* digit)
SignLen(str) == IF str # <<>> /\ str[1] \in {"+", "-"} THEN 1 ELSE 0
MantissaLen(str) ==
    LET nInt == DigitRun(str)
    IN  IF nInt < Len(str) /\ str[nInt + 1] = "."
        THEN nInt + 1 + DigitRun(Drop(str, nInt + 1))
        ELSE nInt
ExponentLen(str) ==
    IF str = <<>> \/ str[1] \notin {"e", "E"} THEN 0
    ELSE LET sign == SignLen(Tail(str))
             digits == DigitRun(Drop(str, 1 + sign))
         IN  IF digits > 0 THEN 1 + sign + digits ELSE 0
\* the length of the longest prefix of str that matches the grammar
GrammarLen(str) ==
    LET sign == SignLen(str)
        mantissa == MantissaLen(Drop(str, sign))
    IN  sign + mantissa + ExponentLen(Drop(str, sign + mantissa))

\* the input with a space put after its first n characters
SpaceAfter(str, n) == Take(str, n) \o <<" ">> \o Drop(str, n)

\* C17: at every position of the input the number scan consumes exactly the
\* longest prefix that matches the grammar, an exponent marker without
\* digits being left for the unit scan; so an input whose number is written
\* directly before a symbol that starts with "E" returns what the same input
\* with a space after the number returns.
C17_NumberScanLongestMatch ==
    /\ \A n \in 0..Len(orig) :
          NumberEnd(Drop(orig, n), 0, TRUE, TRUE, TRUE) = GrammarLen(Drop(orig, n))
    /\ LET g == GrammarLen(orig)
       IN  (Returns /\ g > 0 /\ g < Len(orig) /\ orig[g + 1] = "E") =>
               ret \in Parse(TheWorld, 1, ptype, SpaceAfter(orig, g))

\* ---------------------------------------------------------------------
\* The domain wrappers
\* ---------------------------------------------------------------------

\* What a wrapper returns: a value and an error
DomainReturn(val, err) == [val |-> val, err |-> err]
\* valBits / bitsPerByte: bitsPerByte is 8.0, and an eighth is 0.125
PerByte(x) == FMul(x, Dec(125, 3))

\* (mutant) the dimension of the result is not looked at
CheckedNoDimension(r, dim, val) ==
    IF r.err # "nil" THEN DomainReturn(FInt(0), r.err)
    ELSE DomainReturn(val, "nil")

\* The body the wrappers share, r being what Parse returned: the error of
\* Parse, or the error of a dimension that is not the domain's, or the value
Checked(r, dim, val) ==
    IF r.err # "nil" THEN DomainReturn(FInt(0), r.err)
    ELSE IF ~Equals(r.dim, dim) THEN DomainReturn(FInt(0), "wrong dimension")
    ELSE DomainReturn(val, "nil")

ParseLength(r) == Checked(r, DimLength, r.val)
ParseDuration(r) == Checked(r, DimTime, r.val)
ParseBits(r) == Checked(r, DimStorage, r.val)
ParseBytes(r) == Checked(r, DimStorage, PerByte(r.val))

\* the wrappers with the dimension of their domain, applied to what Parse
\* returned
Wrappers ==
    {[out |-> ParseLength(ret), dim |-> DimLength, scaled |-> FALSE],
     [out |-> ParseDuration(ret), dim |-> DimTime, scaled |-> FALSE],
     [out |-> ParseBits(ret), dim |-> DimStorage, scaled |-> FALSE],
     [out |-> ParseBytes(ret), dim |-> DimStorage, scaled |-> TRUE]}

\* C18: a wrapper returns a value without error only when Parse returned
\* without error and the dimension Parse detected is the dimension of the
\* wrapper's domain, and then it returns the value of Parse (ParseBytes an
\* eighth of it); otherwise it returns an error, that of Parse when Parse
\* failed.  Input that is empty or made of separators only is an error in
\* every wrapper.
C18_WrappersCheckDimension ==
    Returns =>
        \A w \in Wrappers :
            /\ w.out.err = "nil" <=> (ret.err = "nil" /\ ret.dim = w.dim)
            /\ w.out.err = "nil" =>
                  w.out.val = (IF w.scaled THEN PerByte(ret.val) ELSE ret.val)
            /\ ret.err # "nil" => w.out.err = ret.err
            /\ OnlySeparators(orig) => w.out.err = "wrong dimension"

\* "3 Eu" with u a storage unit: 3000 bits, which ParseBits returns and
\* ParseBytes returns as 375 bytes, and which is no length and no duration
C18_Witness ==
    /\ Returns
    /\ orig = <<"3", " ", "E", "u">>
    /\ ptype = "float64"
    /\ ret = Return(FInt(3000), DimStorage, "nil")
    /\ ParseBits(ret) = DomainReturn(FInt(3000), "nil")
    /\ ParseBytes(ret) = DomainReturn(FInt(375), "nil")
    /\ ParseLength(ret).err = "wrong dimension"
    /\ ParseDuration(ret).err = "wrong dimension"

\* ---------------------------------------------------------------------
\* The order of the checks of a part
\* ---------------------------------------------------------------------

\* Parse is about to run an iteration of its loop
AtPart == pc = "loop" /\ sRem # <<>>
\* what that iteration can do
PartOutcomes == ParsePart(TheWorld, 1, ptype, TheLoopState)

\* What the scans and lookups of the part at the head of the remaining
\* input find, taken in the order number scan, unit scan, resolve,
\* dimension: the first error among them, "passed" when there is none
PartCheck ==
    LET num == parseNumber(sRem)
        pu == parseUnit(safeSkipSeps(num.rest, Separators), Separators)
        r == Resolve(TheWorld, 1, pu.unitStr)
    IN  IF num.err # "nil" THEN num.err
        ELSE IF pu.unitStr = <<>> THEN "missing unit"
        ELSE IF ~r.found THEN "unknown unit"
        ELSE IF isDimSet /\ r.u.Dimension # detectedDim THEN "mixed dimensions"
        ELSE "passed"

\* the iteration reports the first failing check, and when all pass it goes
\* on to the value of the part
ChecksInOrder ==
    \A o \in PartOutcomes :
        IF PartCheck # "passed"
        THEN o.done /\ o.ret = Return(FInt(0), DimDimensionless, PartCheck)
        ELSE o.ret.err \in {"none", "precision loss"}

\* the iteration reports the multi-part error and nothing else
GateRefuses ==
    \A o \in PartOutcomes :
        o.done /\ o.ret = Return(FInt(0), DimDimensionless, "multi-part")

\* C19 (as stated): the checks of a part run in the order number scan, unit
\* scan, resolve, dimension, multi-part gate: in a registry that disallows
\* multi-part a second part that fails one of the first four is reported as
\* that error, and the multi-part error is reported only for a second part
\* that passed them.
C19_GateAfterPartChecks ==
    AtPart =>
        IF partsCount > 0 /\ ~MultiPartAllowed /\ PartCheck = "passed"
        THEN GateRefuses
        ELSE ChecksInOrder

\* C19 (amended): the multi-part gate runs first: in a registry that
\* disallows multi-part, any input left after the first part is reported as
\* the multi-part error, whatever its number, unit or dimension; for a first
\* part, and for every part where multi-part is allowed, the checks run in
\* the order number scan, unit scan, resolve, dimension.
C19_GateBeforePartChecks ==
    AtPart =>
        IF partsCount > 0 /\ ~MultiPartAllowed
        THEN GateRefuses
        ELSE ChecksInOrder

\* "3u3" where multi-part is not allowed: the second part has no unit, and
\* what Parse returned is the multi-part error
C19_Witness ==
    /\ Returns
    /\ ~MultiPartAllowed
    /\ orig = <<"3", "u", "3">>
    /\ partsCount = 1
    /\ sRem = <<"3">>
    /\ PartCheck = "missing unit"
    /\ ret = Return(FInt(0), DimDimensionless, "multi-part")

\* ---------------------------------------------------------------------
\* Termination
\* ---------------------------------------------------------------------

\* a step of the loop of Parse: it returns an error, or it goes on with a
\* remaining input at least two characters shorter
LoopStep == pc = "loop" /\ sRem # <<>> /\ pc' # pc
LoopStepSame == pc = "loop" /\ sRem # <<>> /\ partsCount' # partsCount
ReturnsError == pc' = "done" /\ ret'.err \notin {"nil", "none"} /\ partsCount' = partsCount
Shortens ==
    /\ pc' = "loop"
    /\ partsCount' = partsCount + 1
    /\ Len(sRem') + 2 <= Len(sRem)

\* the iteration at hand has an outcome, and each of its outcomes returns an
\* error or counts a part and leaves the input two characters shorter
PartAdvances ==
    /\ PartOutcomes # {}
    /\ \A o \in PartOutcomes :
          IF o.done
          THEN o.ret.err \notin {"nil", "none"} /\ o.st.partsCount = partsCount
          ELSE o.st.partsCount = partsCount + 1 /\ Len(o.st.s) + 2 <= Len(sRem)

\* the iterations run so far: those that went on, and the one that returned
Iterations == partsCount + (IF Returns /\ ret.err # "nil" THEN 1 ELSE 0)

\* C20 (as stated): Parse terminates; each iteration of the loop returns an
\* error or strictly shortens the remaining input, by the character the
\* number scan takes and the one the unit scan takes; and the number of
\* iterations is at most half the length of the input.
C20_TerminatesWithinHalfLength ==
    /\ [](AtPart => PartAdvances)
    /\ [][(LoopStep \/ LoopStepSame) => (ReturnsError \/ Shortens)]_vars
    /\ [](2 * Iterations <= Len(orig))
    /\ (pc = "start") ~> Returns

\* C20 (amended): as above, but it is the number of iterations that go on
\* to a next one that is at most half the length of the input; the
\* iteration that returns an error comes on top, so the loop body runs at
\* most half the length plus one times.
C20_TerminatesCompletedWithinHalfLength ==
    /\ [](AtPart => PartAdvances)
    /\ [][(LoopStep \/ LoopStepSame) => (ReturnsError \/ Shortens)]_vars
    /\ [](2 * partsCount <= Len(orig) - Len(sRem))
    /\ [](2 * Iterations <= Len(orig) + 2)
    /\ (pc = "start") ~> Returns

\* "3u3u" has been parsed in two iterations, half its length
C20_Witness ==
    /\ Returns
    /\ orig = <<"3", "u", "3", "u">>
    /\ MultiPartAllowed
    /\ ret.err = "nil"
    /\ Iterations = 2
    /\ sRem = <<>>

(***************************************************************************)
(* The order of the prefix slice.                                          *)
(***************************************************************************)
\* the prefix slice of system i
PrefixSlice(i) == prefArr[sys[i].prefixes]

\* no element of arr is shorter than a later one
LongestFirst(arr) ==
    \A a \in 1..Len(arr) : \A b \in 1..Len(arr) :
        a < b => Len(arr[a].Symbol) >= Len(arr[b].Symbol)

\* The other orders the same prefixes can stand in with the longest first:
\* what the slice would hold had they been registered in another order.
OtherOrders(arr) ==
    LET n == Len(arr)
    IN  {other \in {SeqOf([a \in 1..n |-> arr[f[a]]], n) : f \in Perms(n)} :
            other # arr /\ LongestFirst(other)}

\* system i resolves every examined symbol alike in each of those orders
ResolvesAlike(i) ==
    \A other \in OtherOrders(PrefixSlice(i)) :
        ResolveAll([TheWorld EXCEPT !.prefArr[sys[i].prefixes] = other], i)
            = ResolveAll(TheWorld, i)

Registry == <<sys, unitMap, prefArr, wlSet>>

\* what the call of caller c returns when it runs alone on the registry
Alone(c) ==
    IF callState[c].op = "Parse"
    THEN Parse(TheWorld, 1, callState[c].ptype, callState[c].orig)
    ELSE {Resolve(TheWorld, 1, callState[c].orig)}

\* what the call of caller c can still return from where it stands
Ahead(c) ==
    IF callState[c].pc = "done" THEN {callState[c].ret}
    ELSE IF callState[c].pc = "loop"
    THEN ParseFrom(TheWorld, 1, callState[c].ptype, callState[c].st)
    ELSE Alone(c)

\* C22: no step of a call of Parse or Resolve, succeeding or failing,
\* changes the registry; and however the steps of the calls interleave,
\* each call returns what it returns when run alone.
C22_ReadersLeaveRegistry ==
    /\ [][Registry' = Registry]_vars
    /\ [](\A c \in Callers : callState[c].pc # "idle" =>
             Ahead(c) # {} /\ Ahead(c) \subseteq Alone(c))

\* two calls of Parse on different inputs stand in their loops at once,
\* each with one part parsed and more input to read
C22_Witness ==
    /\ callState[1].op = "Parse" /\ callState[1].pc = "loop"
    /\ callState[1].st.partsCount = 1 /\ callState[1].st.s # <<>>
    /\ callState[2].op = "Parse" /\ callState[2].pc = "loop"
    /\ callState[2].st.partsCount = 1 /\ callState[2].st.s # <<>>
    /\ callState[1].orig # callState[2].orig

(***************************************************************************)
(* Add of a registered key.                                                *)
(***************************************************************************)
\* the unit that the call c of Add defines
Defined(c) == Unit(c.symbol, c.dim, c.scale)

\* Add(c) on system i changes the unit map of i at the key of c and nothing
\* else in any system: no other unit, no prefix, no whitelist
AddFrame(i, c) ==
    LET key == normalizeKey(sys[i], c.symbol)
        W1 == Add(TheWorld, i, c.symbol, c.scale, c.dim)
    IN  /\ DOMAIN UnitsIn(W1, i) = Keys(i) \cup {key}
        /\ \A k \in Keys(i) \ {key} : UnitsIn(W1, i)[k] = UnitAt(i, k)
        /\ UnitsIn(W1, i)[key] = Defined(c)
        /\ W1 = [TheWorld EXCEPT !.unitMap[sys[i].units] = UnitsIn(W1, i)]
        /\ Resolve(W1, i, c.symbol) = Found(Defined(c), FInt(1))

\* Add(c) of a registered key: whatever resolved to the old definition, by
\* the key itself or by a prefix bound to it, resolves to the new one with
\* the same prefix scale, and every other symbol resolves as before
AddReplaces(i, c) ==
    LET key == normalizeKey(sys[i], c.symbol)
        old == UnitAt(i, key)
        W1 == Add(TheWorld, i, c.symbol, c.scale, c.dim)
    IN  \A s \in ResolveSymbols :
            LET before == Resolve(TheWorld, i, s)
            IN  Resolve(W1, i, s) =
                    IF before.found /\ before.u = old
                    THEN Found(Defined(c), before.scale)
                    ELSE before

\* C23: Add returns nothing and cannot fail; of a symbol whose normalised
\* key is registered it replaces that unit's symbol, scale and dimension,
\* Resolve of the symbol then returns the new definition, and every other
\* unit, the prefix list and the whitelists stay: the prefixes bound to the
\* key now scale the new definition.
C23_AddLastWriteWins ==
    \A i \in DOMAIN sys : \A c \in AddCalls(CI(i)) :
        /\ AddFrame(i, c)
        /\ normalizeKey(sys[i], c.symbol) \in Keys(i) => AddReplaces(i, c)

\* b was registered as a storage unit of scale 1 and bound to the prefix k;
\* Add has made it a length unit of scale 8, and "kb" resolves to that
C23_Witness ==
    \E q \in PrefixSet(1) :
        /\ last.op = "Add"
        /\ q.Symbol = Str1("k")
        /\ Bound(1, q, Str1("b"))
        /\ UnitAt(1, Str1("b")).Scale = FInt(8)
        /\ UnitAt(1, Str1("b")).Dimension = DimLength
        /\ Resolve(TheWorld, 1, Str2("k", "b")) = Found(UnitAt(1, Str1("b")), q.Scale)

(***************************************************************************)
(* Floating-point type parameters.                                         *)
(***************************************************************************)
\* C24: with a floating-point type parameter, float32 as well as float64,
\* Parse never returns the precision-loss error: an input whose parts scan,
\* resolve and agree in dimension is accepted, fractional parts such as 0.1
\* of the base unit included.
C24_FloatsNeverLosePrecision ==
    (Returns /\ IsFloat(ptype)) => ret.err # "precision loss"

====
